---- MODULE Spec2Model ----
(***************************************************************************)
(* Model of the connpass scrapers (scripts/scrape_linedc_connpass.py and   *)
(* its near-copy scripts/scrape_iotlt_connpass.py): the markdown Store,    *)
(* the listing walk and the two run modes of main().                       *)
(*                                                                         *)
(* Text is modelled as a sequence of tokens.  A token is one character     *)
(* ("|", " ", "1") or a chunk of characters that the code never looks      *)
(* inside ("http", "&#124;", a date).  All string functions of the code    *)
(* (strip, split, replace, startswith, int) are computed on these          *)
(* sequences as Python computes them on characters.                        *)
(***************************************************************************)
EXTENDS Integers, Sequences, FiniteSets, TLC

(* ------------------------------ bounds -------------------------------- *)
MaxRuns == 2
MaxPage == 2
MaxLimit == 2
MaxRetries == 5
MaxLinks == 2
MaxFieldLen == 3

(* ------------------------- text as token lists ------------------------ *)
SP == " "
NL == "\n"
PIPE == "|"
PIPE_ENTITY == "&#124;"
BR == "<br>"

IsSpace(t) == t \in {SP, NL}

RECURSIVE LStrip(_)
LStrip(s) == IF s # <<>> /\ IsSpace(Head(s)) THEN LStrip(Tail(s)) ELSE s

RECURSIVE RStrip(_)
RStrip(s) ==
  IF s # <<>> /\ IsSpace(s[Len(s)]) THEN RStrip(SubSeq(s, 1, Len(s) - 1)) ELSE s

\* str.strip()
Strip(s) == RStrip(LStrip(s))

RECURSIVE LStripPipe(_)
LStripPipe(s) == IF s # <<>> /\ Head(s) = PIPE THEN LStripPipe(Tail(s)) ELSE s

RECURSIVE RStripPipe(_)
RStripPipe(s) ==
  IF s # <<>> /\ s[Len(s)] = PIPE THEN RStripPipe(SubSeq(s, 1, Len(s) - 1)) ELSE s

\* str.strip("|")
StripPipe(s) == RStripPipe(LStripPipe(s))

\* str.split("|"): always at least one part.  from: where the current part
\* starts, i: the position looked at.
RECURSIVE SplitPipeFrom(_, _, _)
SplitPipeFrom(s, from, i) ==
  IF i > Len(s) THEN <<SubSeq(s, from, Len(s))>>
  ELSE IF s[i] = PIPE THEN <<SubSeq(s, from, i - 1)>> \o SplitPipeFrom(s, i + 1, i + 1)
  ELSE SplitPipeFrom(s, from, i + 1)

SplitPipe(s) == SplitPipeFrom(s, 1, 1)

\* str.replace("|", "&#124;")
RECURSIVE ReplacePipe(_)
ReplacePipe(s) ==
  IF s = <<>> THEN <<>>
  ELSE <<IF Head(s) = PIPE THEN PIPE_ENTITY ELSE Head(s)>> \o ReplacePipe(Tail(s))

\* .replace("\r\n", "\n").replace("\r", "\n").replace("\n", " ")
RECURSIVE ReplaceNewlines(_)
ReplaceNewlines(s) ==
  IF s = <<>> THEN <<>>
  ELSE <<IF Head(s) = NL THEN SP ELSE Head(s)>> \o ReplaceNewlines(Tail(s))

\* sep.join(parts)
RECURSIVE Join(_, _)
Join(sep, parts) ==
  IF parts = <<>> THEN <<>>
  ELSE IF Len(parts) = 1 THEN parts[1]
  ELSE parts[1] \o sep \o Join(sep, Tail(parts))

StartsWith(s, t) == s # <<>> /\ Head(s) = t

\* code point order of the tokens (first character decides)
TokOrder ==
  <<SP, PIPE_ENTITY, "/", "/event/", "1", "10:00~", "19:00~", "19:00~21:00", "2",
    "2023/01/15", "2024/03/10", "3", "4", "\\", "c", "d", "http", "s", PIPE>>

Rank(t) == CHOOSE i \in 1..Len(TokOrder) : TokOrder[i] = t

\* Python's < on str
RECURSIVE StrLess(_, _)
StrLess(a, b) ==
  IF b = <<>> THEN FALSE
  ELSE IF a = <<>> THEN TRUE
  ELSE IF Head(a) = Head(b) THEN StrLess(Tail(a), Tail(b))
  ELSE Rank(Head(a)) < Rank(Head(b))

\* Python's < on tuples of str
RECURSIVE TupleLess(_, _)
TupleLess(a, b) ==
  IF b = <<>> THEN FALSE
  ELSE IF a = <<>> THEN TRUE
  ELSE IF Head(a) = Head(b) THEN TupleLess(Tail(a), Tail(b))
  ELSE StrLess(Head(a), Head(b))

(* --------------------------- the Store file --------------------------- *)
\* One cell of text per token list; a list of URLs is a list of token lists.
Txt(t) == <<t>>

HEADER_CELLS ==
  <<"id", "vol", "type", "title", "mode", "venue", "address", "connpass URL",
    "tweet URL", "slides", "participants", "date", "weekday", "time">>

ALIGN_CELLS ==
  <<"---:", ":---:", ":---", ":---", ":---:", ":---", ":---", ":---", ":---",
    ":---", "---:", ":---:", ":---:", ":---:">>

\* "| " + " | ".join(cells) + " |"   (one line, the newline is the line break)
RowLine(cells) == <<PIPE, SP>> \o Join(<<SP, PIPE, SP>>, cells) \o <<SP, PIPE>>

\* "| id | vol | ... |"
HeaderLine == RowLine([i \in 1..Len(HEADER_CELLS) |-> Txt(HEADER_CELLS[i])])

\* "|---:|:---:| ... |"
AlignLine ==
  <<PIPE>> \o Join(<<PIPE>>, [i \in 1..Len(ALIGN_CELLS) |-> Txt(ALIGN_CELLS[i])])
           \o <<PIPE>>

\* path.read_text().strip() is non-empty
HasText(lines) == \E i \in 1..Len(lines) : \E k \in 1..Len(lines[i]) : ~IsSpace(lines[i][k])

\* A file is [exists |-> BOOLEAN, lines |-> sequence of lines].
\* Variant: the early return on a non-empty file is missing.
EnsureTableHeaderAlwaysWrites(f) == [exists |-> TRUE, lines |-> <<HeaderLine, AlignLine>>]

EnsureTableHeader(f) ==
  IF f.exists /\ HasText(f.lines) THEN f
  ELSE [exists |-> TRUE, lines |-> <<HeaderLine, AlignLine>>]

\* [c.strip() for c in line.strip("|").split("|")]
Cols(line) ==
  LET parts == SplitPipe(StripPipe(line))
  IN [i \in 1..Len(parts) |-> Strip(parts[i])]

\* int(s): the set is empty when int() raises
IdLimit == 20 * MaxRuns
IntOf(s) == {n \in 0..IdLimit : s = Txt(ToString(n))}

RECURSIVE MaxIdOf(_, _)
MaxIdOf(lines, max_id) ==
  IF lines = <<>> THEN max_id
  ELSE LET line == Head(lines)
           v == IF StartsWith(line, PIPE) THEN IntOf(Cols(line)[1]) ELSE {}
       IN MaxIdOf(Tail(lines),
                  IF v = {} THEN max_id
                  ELSE LET n == CHOOSE x \in v : TRUE
                       IN IF n > max_id THEN n ELSE max_id)

\* Variant: returns max_id, not max_id + 1.
NextIdFromFileNoIncrement(f) == IF ~f.exists THEN 1 ELSE MaxIdOf(f.lines, 0)

NextIdFromFile(f) == IF ~f.exists THEN 1 ELSE MaxIdOf(f.lines, 0) + 1

ExistingConnpassUrls(f) ==
  IF ~f.exists THEN {}
  ELSE LET cols == [k \in 1..Len(f.lines) |->
                      IF StartsWith(f.lines[k], PIPE) THEN Cols(f.lines[k]) ELSE <<>>]
       IN {cols[k][8] : k \in
             {i \in 1..Len(f.lines) : Len(cols[i]) >= 8 /\ StartsWith(cols[i][8], "http")}}

FormatCellLinks(urls) == Join(<<BR>>, urls)

MdEscapeCell(s) == Strip(ReplacePipe(ReplaceNewlines(s)))

RowCells(row, row_id) ==
  <<Txt(ToString(row_id)),
    MdEscapeCell(row.vol),
    MdEscapeCell(row.event_type),
    MdEscapeCell(row.title),
    MdEscapeCell(row.mode),
    MdEscapeCell(row.venue_name),
    MdEscapeCell(row.address),
    MdEscapeCell(row.connpass_url),
    MdEscapeCell(FormatCellLinks(row.tweet_urls)),
    MdEscapeCell(FormatCellLinks(row.slide_urls)),
    Txt(ToString(row.participants)),
    row.date_yyyy_mm_dd,
    MdEscapeCell(row.weekday_ja),
    MdEscapeCell(row.time_range)>>

\* open(path, "a") creates the file when it is absent
AppendRows(f, rows, start_id) ==
  [exists |-> TRUE,
   lines |-> f.lines \o [i \in 1..Len(rows) |-> RowLine(RowCells(rows[i], start_id + i - 1))]]

(* ----------------------- the site being scraped ----------------------- *)
\* Event URLs as the listing page gives them in href: two plain ones, one
\* with a '|' in it, one without the scheme (curl fetches all four).
U1 == <<"http", "1">>
U2 == <<"http", "2">>
U3 == <<"http", "3", PIPE>>
U4 == <<"c", "4">>

\* Candidate slide links of the event pages.
S1 == <<"http", "s", "1">>
S2 == <<"http", "s", "2">>
S3 == <<"http", "s", "3">>
SlideUrls == {S1, S2, S3}

\* The EventRow that _event_row_from_url builds from the detail page of u;
\* slide_urls is slide_urls_raw, the candidates before validation.
EventRowOf(u) ==
  [vol |-> IF u = U1 THEN Txt("vol.5") ELSE <<>>,
   event_type |-> Txt("LT"),
   title |-> IF u = U1 THEN <<"LT", PIPE, "vol.5">> ELSE <<"T">> \o Tail(u),
   mode |-> Txt("online"),
   venue_name |-> Txt("venue"),
   address |-> <<>>,
   connpass_url |-> u,
   tweet_urls |-> IF u = U2 THEN <<<<"http", "t", "1">>, <<"http", "t", "2">>>> ELSE <<>>,
   slide_urls |-> IF u = U1 THEN <<S1, S2>>
                  ELSE IF u = U2 THEN <<S1>>
                  ELSE IF u = U3 THEN <<S3>> ELSE <<>>,
   participants |-> IF u = U2 THEN 12 ELSE 0,
   date_yyyy_mm_dd |-> IF u = U3 THEN Txt("2023/01/15") ELSE Txt("2024/03/10"),
   weekday_ja |-> Txt("Sun"),
   time_range |-> IF u = U2 THEN <<>>
                  ELSE IF u = U3 THEN Txt("10:00~") ELSE Txt("19:00~21:00")]

\* Listing pages of the group, page 1 first (the newest events): a site
\* with two pages; one that lists an event on both pages; one whose page 1
\* lists nothing and whose page 2 lists an event twice.
SlideWeb == << <<U1, U2>>, <<U3>> >>

Webs ==
  {SlideWeb,
   << <<U2, U4>>, <<U1, U2>> >>,
   << <<>>, <<U1, U1>> >>}

\* An out-of-range ?page= renders the last page.
ListingOf(w, p) == w[IF p > Len(w) THEN Len(w) ELSE p]

\* Outcome of one _run_curl call: curl failed after its retries (it raises),
\* or it returned with an HTTP status.
FetchOutcomes ==
  {[curl_ok |-> TRUE, status |-> 200],
   [curl_ok |-> TRUE, status |-> 404],
   [curl_ok |-> FALSE, status |-> 0]}

\* What the probe of page 999999 can answer: the pagination markup with an
\* active item, with page links only, with neither; or no page at all.
ProbeResponses(w) ==
  {[curl_ok |-> TRUE, status |-> 200, active |-> {Len(w)}, links |-> 1..Len(w)],
   [curl_ok |-> TRUE, status |-> 200, active |-> {}, links |-> 1..Len(w)],
   [curl_ok |-> TRUE, status |-> 200, active |-> {}, links |-> {}],
   [curl_ok |-> TRUE, status |-> 404, active |-> {}, links |-> {}],
   [curl_ok |-> FALSE, status |-> 0, active |-> {}, links |-> {}]}

(* ----------------------------- helpers -------------------------------- *)
Min(a, b) == IF a < b THEN a ELSE b

SetMax(S) == CHOOSE x \in S : \A y \in S : y <= x

\* De-dup, order preserved
RECURSIVE Dedup(_, _)
Dedup(s, seen) ==
  IF s = <<>> THEN <<>>
  ELSE IF Head(s) \in seen THEN Dedup(Tail(s), seen)
  ELSE <<Head(s)>> \o Dedup(Tail(s), seen \cup {Head(s)})

\* list.sort(key=...) on a list of [key, row]: stable insertion
RECURSIVE InsertKeyed(_, _)
InsertKeyed(sorted, x) ==
  IF sorted = <<>> THEN <<x>>
  ELSE IF TupleLess(x.key, Head(sorted).key) THEN <<x>> \o sorted
  ELSE <<Head(sorted)>> \o InsertKeyed(Tail(sorted), x)

RECURSIVE SortKeyed(_)
SortKeyed(ks) ==
  IF ks = <<>> THEN <<>>
  ELSE InsertKeyed(SortKeyed(SubSeq(ks, 1, Len(ks) - 1)), ks[Len(ks)])

\* Variant: the sort is missing.
Unsorted(rs) == rs

\* all_rows.sort(key=lambda r: (r.date_yyyy_mm_dd, r.time_range, r.connpass_url))
RebuildSorted(rs) ==
  LET ks == [i \in 1..Len(rs) |->
               [key |-> <<rs[i].date_yyyy_mm_dd, rs[i].time_range, rs[i].connpass_url>>,
                row |-> rs[i]]]
      sorted == SortKeyed(ks)
  IN [i \in 1..Len(rs) |-> sorted[i].row]

\* rows.sort(key=lambda r: (r.date_yyyy_mm_dd, r.connpass_url))
IncrementalSorted(rs) ==
  LET ks == [i \in 1..Len(rs) |->
               [key |-> <<rs[i].date_yyyy_mm_dd, rs[i].connpass_url>>, row |-> rs[i]]]
      sorted == SortKeyed(ks)
  IN [i \in 1..Len(rs) |-> sorted[i].row]

\* Variant: the cut to `remaining` is missing.
NoSlice(rs, n) == rs

\* rows[:n]
SliceUpTo(rs, n) ==
  IF n >= Len(rs) THEN rs
  ELSE IF n >= 0 THEN SubSeq(rs, 1, n)
  ELSE SubSeq(rs, 1, IF Len(rs) + n > 0 THEN Len(rs) + n ELSE 0)

(* ---------------------- slide validation cache ----------------------- *)
\* None, as the empty sequence; a value v that is not None is <<v>>.
None == <<>>

\* A dict is the set of its <<key, value>> items.
EmptyDict == {}

\* An HTML page as the extractors see it: what its primary title block and
\* its title tag hold (None when the page has none), the text its date is
\* read from, the number in the first participants pattern that matches
\* (None when none does), whether one of the two no-registration markers
\* occurs, and the texts of the place_name and adr blocks.  NoPage: nothing
\* read.
NoPage ==
  [got |-> FALSE, title_block |-> <<>>, title_tag |-> <<>>, date_text |-> <<>>,
   count |-> <<>>, marker |-> FALSE, venue_name |-> <<>>, address |-> <<>>]

Keys(d) == {e[1] : e \in d}

\* dict.get
Get(d, u) == IF u \in Keys(d) THEN <<(CHOOSE e \in d : e[1] = u)[2]>> ELSE None

\* d[u] = v
Put(d, u, v) == {e \in d : e[1] # u} \cup {<<u, v>>}

\* A path is <<stem, suffix>>; --slide-cache has this default.
SLIDE_CACHE_DEFAULT == <<"data/slide_url_cache", ".json">>
TMP_SUFFIX == ".tmp"

\* Variant: the temporary file is the cache file itself.
WithSuffixSame(path, suffix) == path

\* Path.with_suffix
WithSuffix(path, suffix) == <<path[1], suffix>>

Paths == {SLIDE_CACHE_DEFAULT, WithSuffix(SLIDE_CACHE_DEFAULT, TMP_SUFFIX)}

\* A JSON text of a dict: its "{", its items in order, its "}"; a text cut
\* short lacks the "}" and some items.
EmptyText == [open |-> FALSE, items |-> <<>>, close |-> FALSE]

Absent == [exists |-> FALSE, text |-> EmptyText]

\* The keys of d in sort_keys order.
RECURSIVE SortedKeys(_)
SortedKeys(K) ==
  IF K = {} THEN <<>>
  ELSE LET least == CHOOSE k \in K : \A x \in K \ {k} : StrLess(k, x)
       IN <<least>> \o SortedKeys(K \ {least})

\* json.dumps(d, sort_keys=True)
Dumps(d) ==
  LET ks == SortedKeys(Keys(d))
  IN [open |-> TRUE, items |-> [i \in 1..Len(ks) |-> <<ks[i], Get(d, ks[i])[1]>>],
      close |-> TRUE]

\* json.loads accepts the text and gives a dict
IsDictText(t) == t.open /\ t.close

\* json.loads of a dict text
Loads(t) == {t.items[i] : i \in 1..Len(t.items)}

\* Variant: the cache file is not read.
LoadNothing(file) == EmptyDict

\* _load_slide_cache: the dict it leaves in _SLIDE_CACHE
LoadSlideCache(file) ==
  IF ~file.exists THEN EmptyDict
  ELSE IF IsDictText(file.text) THEN Loads(file.text)
  ELSE EmptyDict

\* tmp_path.replace(path)
Replace(fs, src, dst) ==
  IF src = dst THEN fs ELSE [fs EXCEPT ![dst] = fs[src], ![src] = Absent]

\* Variant: the flush does nothing.
SaveSlideCacheSkipped(fs, path, cache) == fs

\* _save_slide_cache run to its end
SaveSlideCache(fs, path, cache) ==
  IF path = None THEN fs
  ELSE LET tmp_path == WithSuffix(path, TMP_SUFFIX)
           written == [fs EXCEPT ![tmp_path] = [exists |-> TRUE, text |-> Dumps(cache)]]
       IN Replace(written, tmp_path, path)

\* What the curl of is_valid_slide_url can come back with: subprocess.run
\* raised; curl exited non-zero; no __CURLMETA__ marker; a marker the regex
\* rejects; a status; and for a 200 the <title> and the head of the body.
TITLE_OK == <<"Deck">>
\* the Japanese "page not found" title, as one token
TITLE_GONE_JA == "page-not-found-ja"
SlideResponses ==
  {[ran |-> FALSE, returncode |-> 0, marker |-> FALSE, meta |-> FALSE, status |-> 0,
    title |-> <<>>, snippet |-> <<>>],
   [ran |-> TRUE, returncode |-> 28, marker |-> FALSE, meta |-> FALSE, status |-> 0,
    title |-> <<>>, snippet |-> <<>>],
   [ran |-> TRUE, returncode |-> 0, marker |-> FALSE, meta |-> FALSE, status |-> 0,
    title |-> <<>>, snippet |-> <<>>],
   [ran |-> TRUE, returncode |-> 0, marker |-> TRUE, meta |-> FALSE, status |-> 0,
    title |-> <<>>, snippet |-> <<>>],
   [ran |-> TRUE, returncode |-> 0, marker |-> TRUE, meta |-> TRUE, status |-> 404,
    title |-> TITLE_OK, snippet |-> <<>>],
   [ran |-> TRUE, returncode |-> 0, marker |-> TRUE, meta |-> TRUE, status |-> 200,
    title |-> <<"Page", SP, "Not Found">>, snippet |-> <<>>],
   [ran |-> TRUE, returncode |-> 0, marker |-> TRUE, meta |-> TRUE, status |-> 200,
    title |-> <<"404", SP, "error">>, snippet |-> <<>>],
   [ran |-> TRUE, returncode |-> 0, marker |-> TRUE, meta |-> TRUE, status |-> 200,
    title |-> <<TITLE_GONE_JA>>, snippet |-> <<>>],
   [ran |-> TRUE, returncode |-> 0, marker |-> TRUE, meta |-> TRUE, status |-> 200,
    title |-> <<>>, snippet |-> <<"404", SP, "Not Found">>],
   [ran |-> TRUE, returncode |-> 0, marker |-> TRUE, meta |-> TRUE, status |-> 200,
    title |-> <<>>, snippet |-> <<"404", SP, "error">>],
   [ran |-> TRUE, returncode |-> 0, marker |-> TRUE, meta |-> TRUE, status |-> 200,
    title |-> TITLE_OK, snippet |-> <<"Deck">>]}

\* str.lower
Lower(t) == IF t = "Not Found" THEN "not found" ELSE IF t = "Deck" THEN "deck" ELSE t

\* `word in text.lower()`
InLowered(word, text) == \E i \in 1..Len(text) : Lower(text[i]) = word

\* `word in text`
InText(word, text) == \E i \in 1..Len(text) : text[i] = word

\* return bool(cached)
Hit(cache, url) == [verdict |-> Get(cache, url) = <<TRUE>>, cache |-> cache, fetched |-> FALSE]

\* _SLIDE_CACHE[url] = v; return v
StoreAndReturn(cache, url, v) == [verdict |-> v, cache |-> Put(cache, url, v), fetched |-> TRUE]

\* Variant: only a true entry counts as a hit (`if cached:`).
IsValidSlideUrlTruthyHit(cache, url, resp) ==
  IF Get(cache, url) = <<TRUE>> THEN Hit(cache, url)
  ELSE IF ~resp.ran THEN StoreAndReturn(cache, url, FALSE)
  ELSE IF resp.returncode # 0 THEN StoreAndReturn(cache, url, FALSE)
  ELSE IF ~resp.marker THEN StoreAndReturn(cache, url, FALSE)
  ELSE IF ~resp.meta THEN StoreAndReturn(cache, url, FALSE)
  ELSE IF resp.status # 200 THEN StoreAndReturn(cache, url, FALSE)
  ELSE IF InLowered("not found", resp.title) \/ InLowered("404", resp.title)
    THEN StoreAndReturn(cache, url, FALSE)
  ELSE IF InText(TITLE_GONE_JA, resp.title) THEN StoreAndReturn(cache, url, FALSE)
  ELSE IF InLowered("404", resp.snippet) /\ InLowered("not found", resp.snippet)
    THEN StoreAndReturn(cache, url, FALSE)
  ELSE StoreAndReturn(cache, url, TRUE)

\* Variant: the non-200 path returns False without storing it.
IsValidSlideUrlStatusNotStored(cache, url, resp) ==
  IF Get(cache, url) # None THEN Hit(cache, url)
  ELSE IF ~resp.ran THEN StoreAndReturn(cache, url, FALSE)
  ELSE IF resp.returncode # 0 THEN StoreAndReturn(cache, url, FALSE)
  ELSE IF ~resp.marker THEN StoreAndReturn(cache, url, FALSE)
  ELSE IF ~resp.meta THEN StoreAndReturn(cache, url, FALSE)
  ELSE IF resp.status # 200 THEN [verdict |-> FALSE, cache |-> cache, fetched |-> TRUE]
  ELSE IF InLowered("not found", resp.title) \/ InLowered("404", resp.title)
    THEN StoreAndReturn(cache, url, FALSE)
  ELSE IF InText(TITLE_GONE_JA, resp.title) THEN StoreAndReturn(cache, url, FALSE)
  ELSE IF InLowered("404", resp.snippet) /\ InLowered("not found", resp.snippet)
    THEN StoreAndReturn(cache, url, FALSE)
  ELSE StoreAndReturn(cache, url, TRUE)

\* is_valid_slide_url, return path by return path: the verdict, _SLIDE_CACHE
\* afterwards, and whether curl was run.  An entry other than None is a hit
\* and is returned as bool(cached); `except Exception` takes what
\* subprocess.run raises.
IsValidSlideUrl(cache, url, resp) ==
  IF Get(cache, url) # None THEN Hit(cache, url)
  ELSE IF ~resp.ran THEN StoreAndReturn(cache, url, FALSE)
  ELSE IF resp.returncode # 0 THEN StoreAndReturn(cache, url, FALSE)
  ELSE IF ~resp.marker THEN StoreAndReturn(cache, url, FALSE)
  ELSE IF ~resp.meta THEN StoreAndReturn(cache, url, FALSE)
  ELSE IF resp.status # 200 THEN StoreAndReturn(cache, url, FALSE)
  ELSE IF InLowered("not found", resp.title) \/ InLowered("404", resp.title)
    THEN StoreAndReturn(cache, url, FALSE)
  ELSE IF InText(TITLE_GONE_JA, resp.title) THEN StoreAndReturn(cache, url, FALSE)
  ELSE IF InLowered("404", resp.snippet) /\ InLowered("not found", resp.snippet)
    THEN StoreAndReturn(cache, url, FALSE)
  ELSE StoreAndReturn(cache, url, TRUE)

(* ------------------------------ state --------------------------------- *)
VARIABLES
  out_file,       \* the Store, Path(args.out): [exists, lines]
  web,            \* the listing pages the site serves
  pc,             \* where main() is: idle, detect, setup, list, event
  args,           \* the parsed command line of the current run
  start_page, end_page, page,
  urls, idx,      \* the listing of `page` and the position of `for u in urls`
  rows, all_rows, seen_urls, existing_urls,
  remaining, current_id, next_id,
  result, error,  \* how the last run ended, and the message it raised
  net_log,        \* the network operations of the current run, in order
  runs,           \* number of runs started
  pre_file,       \* the Store as the current run found it
  rebuilds,       \* what each completed rebuild wrote, with its page range
  slide_cache,        \* _SLIDE_CACHE
  slide_cache_path,   \* _SLIDE_CACHE_PATH
  files,              \* the cache file and its temporary file, by path
  pre_files,          \* `files` as the current run (or flush) found them
  hrefs,              \* _extract_links: the candidates found in the page
  links, link_idx,    \* _event_row_from_html: `for link in links`
  finals,             \* `link` at the end of each turn, after resolution
  tweet_urls, slide_urls_raw,
  slide_idx, slide_urls,   \* ... and `for link in slide_urls_raw`
  retries, attempt,   \* _run_curl: its parameter and its loop variable
  curl_pc, last_err,
  sleeps, tries,      \* the time.sleep calls and curl exit codes of the call
  wr_pc, wr_lines, wr_idx,   \* append_rows: `for line in lines: f.write(line)`
  save_pc,            \* where _save_slide_cache is
  html, p_html,       \* _event_row_from_url: the detail page and its sub-page
  participants,       \* ... and the participant count it has so far
  cells,              \* what the feed builder read from a line of the Store
  raw_dir             \* --raw-dir: event_urls.txt and events/*.html

walk_vars ==
  <<out_file, web, pc, args, start_page, end_page, page, urls, idx, rows,
    all_rows, seen_urls, existing_urls, remaining, current_id, next_id, result,
    error, net_log, runs, pre_file, rebuilds>>

cache_vars == <<slide_cache, slide_cache_path, files, pre_files>>

row_vars == <<hrefs, links, link_idx, finals, tweet_urls, slide_urls_raw, slide_idx,
              slide_urls>>

curl_vars == <<retries, attempt, curl_pc, last_err, sleeps, tries>>

write_vars == <<wr_pc, wr_lines, wr_idx, save_pc>>

event_vars == <<html, p_html, participants, cells, raw_dir>>

vars == <<walk_vars, cache_vars, row_vars, curl_vars, write_vars, event_vars>>

LIMIT_DEFAULT == 5

\* --start-page (0 = auto-detect), --end-page (<<>> when omitted), --limit,
\* --rebuild, without --validate-slides.  A rebuild never reads --limit, so
\* it keeps the default.
ArgSpace ==
  {a \in [rebuild : BOOLEAN,
          start_page : 0..MaxPage,
          end_page : {<<>>} \cup {<<n>> : n \in 1..MaxPage},
          limit : (0..MaxLimit) \cup {LIMIT_DEFAULT},
          validate_slides : {FALSE},
          sleep : {0}] :
     IF a.rebuild THEN a.limit = LIMIT_DEFAULT ELSE a.limit \in 0..MaxLimit}

NoArgs ==
  [rebuild |-> FALSE, start_page |-> 0, end_page |-> <<>>, limit |-> 0,
   validate_slides |-> FALSE, sleep |-> 0]

\* The values the variables of a part of the program have while it is not run.
CacheIdle ==
  /\ slide_cache = EmptyDict
  /\ slide_cache_path = None
  /\ files = [p \in Paths |-> Absent]
  /\ pre_files = files

RowIdle ==
  /\ hrefs = <<>> /\ finals = <<>>
  /\ links = <<>> /\ link_idx = 0
  /\ tweet_urls = <<>> /\ slide_urls_raw = <<>>
  /\ slide_idx = 0 /\ slide_urls = <<>>

CurlIdle ==
  /\ retries = 0 /\ attempt = 0 /\ curl_pc = "idle" /\ last_err = ""
  /\ sleeps = <<>> /\ tries = <<>>

WriteIdle ==
  /\ wr_pc = "idle" /\ wr_lines = <<>> /\ wr_idx = 0
  /\ save_pc = "idle"

\* No --raw-dir.
NoRaw == [urls_txt |-> <<>>, events |-> <<>>]

EventIdle ==
  /\ html = NoPage /\ p_html = NoPage
  /\ participants = None
  /\ cells = <<>>
  /\ raw_dir = NoRaw

WalkIdle ==
  /\ pc = "idle"
  /\ args = NoArgs
  /\ start_page = 0 /\ end_page = 0 /\ page = 0
  /\ urls = <<>> /\ idx = 0
  /\ rows = <<>> /\ all_rows = <<>> /\ seen_urls = {} /\ existing_urls = {}
  /\ remaining = 0 /\ current_id = 0 /\ next_id = 0
  /\ result = "none" /\ error = ""
  /\ net_log = <<>>
  /\ runs = 0
  /\ pre_file = out_file
  /\ rebuilds = {}

Init ==
  /\ out_file \in {[exists |-> FALSE, lines |-> <<>>], [exists |-> TRUE, lines |-> <<>>]}
  /\ web \in Webs
  /\ WalkIdle
  /\ CacheIdle /\ RowIdle /\ CurlIdle /\ WriteIdle /\ EventIdle

\* --sleep as given when it is given
SLEEP_GIVEN == 2

\* sleep_s = max(0.0, float(args.sleep or 0.0))
SleepS(a) == IF a.sleep > 0 THEN a.sleep ELSE 0

\* `if sleep_s: time.sleep(sleep_s)`: the call is noted with the number of
\* network operations the run had made before it.
Slept(a, log, calls) ==
  IF SleepS(a) # 0 THEN Append(calls, [after |-> Len(log), seconds |-> SleepS(a)])
  ELSE calls

\* An exception leaves main(): the run is over.
Abort(msg) ==
  /\ pc' = "idle"
  /\ result' = "failed"
  /\ error' = msg

(* ---------------------------- main(): start --------------------------- *)
StartRun(a) ==
  /\ pc = "idle"
  /\ runs < MaxRuns
  /\ runs' = runs + 1
  /\ args' = a
  /\ start_page' = a.start_page
  /\ end_page' = 0 /\ page' = 0
  /\ urls' = <<>> /\ idx' = 0
  /\ rows' = <<>> /\ all_rows' = <<>> /\ seen_urls' = {} /\ existing_urls' = {}
  /\ remaining' = 0 /\ current_id' = 0 /\ next_id' = 0
  /\ result' = "none" /\ error' = ""
  /\ net_log' = <<>>
  /\ pre_file' = out_file
  /\ pc' = IF a.start_page = 0 THEN "detect" ELSE "setup"
  /\ IF a.validate_slides
     THEN /\ slide_cache_path' = SLIDE_CACHE_DEFAULT
          /\ slide_cache' = LoadSlideCache(files[SLIDE_CACHE_DEFAULT])
     ELSE /\ slide_cache_path' = None
          /\ slide_cache' = EmptyDict
  /\ pre_files' = files
  /\ sleeps' = <<>>
  /\ UNCHANGED <<out_file, web, rebuilds, files, row_vars, retries, attempt, curl_pc,
                 last_err, tries, write_vars,
                 event_vars>>

\* _detect_oldest_page on one probe response: [ok, page, error]
DetectResult(resp) ==
  IF ~resp.curl_ok THEN [ok |-> FALSE, page |-> 0, error |-> "curl failed"]
  ELSE IF resp.status # 200
    THEN [ok |-> FALSE, page |-> 0, error |-> "could not detect oldest page (non-200 on probe)"]
  ELSE IF resp.active # {}
    THEN [ok |-> TRUE, page |-> CHOOSE n \in resp.active : TRUE, error |-> ""]
  ELSE IF resp.links # {}
    THEN [ok |-> TRUE, page |-> SetMax(resp.links), error |-> ""]
  ELSE [ok |-> FALSE, page |-> 0, error |-> "could not detect oldest page (no pagination found)"]

DetectOldestPage(resp) ==
  /\ pc = "detect"
  /\ net_log' = Append(net_log, [kind |-> "probe", curl_ok |-> resp.curl_ok, status |-> resp.status])
  /\ LET d == DetectResult(resp)
     IN IF d.ok
        THEN /\ start_page' = d.page
             /\ pc' = "setup"
             /\ UNCHANGED <<result, error>>
        ELSE /\ Abort(d.error)
             /\ UNCHANGED start_page
  /\ UNCHANGED <<out_file, web, args, end_page, page, urls, idx, rows, all_rows,
                 seen_urls, existing_urls, remaining, current_id, next_id, runs,
                 pre_file, rebuilds, cache_vars, row_vars, curl_vars, write_vars, event_vars>>

\* end_page = (1 if rebuild and end is None else start_page) if end is None else end
EndPageOf(a, sp) ==
  IF a.end_page = <<>> THEN (IF a.rebuild THEN 1 ELSE sp) ELSE a.end_page[1]

\* Variant: any end page is accepted.
AnyRange(ep, sp) == FALSE

\* if end_page > start_page: raise RuntimeError(...)
RangeInvalid(ep, sp) == ep > sp

RANGE_MSG == "--end-page must be <= --start-page"

\* The range check, then the start of the mode: nothing for a rebuild; the
\* header, next id and known URLs for an incremental run.
Setup ==
  /\ pc = "setup"
  /\ end_page' = EndPageOf(args, start_page)
  /\ IF RangeInvalid(end_page', start_page)
     THEN /\ Abort(RANGE_MSG)
          /\ UNCHANGED <<out_file, page, next_id, existing_urls, remaining, current_id>>
     ELSE /\ pc' = "list"
          /\ page' = start_page
          /\ UNCHANGED <<result, error>>
          /\ IF args.rebuild
             THEN UNCHANGED <<out_file, next_id, existing_urls, remaining, current_id>>
             ELSE /\ out_file' = EnsureTableHeader(out_file)
                  /\ next_id' = NextIdFromFile(out_file')
                  /\ existing_urls' = ExistingConnpassUrls(out_file')
                  /\ remaining' = args.limit
                  /\ current_id' = next_id'
  /\ UNCHANGED <<web, args, start_page, urls, idx, rows, all_rows, seen_urls,
                 net_log, runs, pre_file, rebuilds, cache_vars, row_vars, curl_vars,
                 write_vars, event_vars>>

(* ------------------------- main(): the page walk ---------------------- *)
\* Variant: the status check is missing.
AnyStatusListPage(o, w, p) ==
  IF ~o.curl_ok THEN [ok |-> FALSE, urls |-> <<>>, error |-> "curl failed"]
  ELSE [ok |-> TRUE, urls |-> Dedup(ListingOf(w, p), {}), error |-> ""]

\* _event_urls_from_list_page on one fetch outcome: [ok, urls, error]
EventUrlsFromListPage(o, w, p) ==
  IF ~o.curl_ok THEN [ok |-> FALSE, urls |-> <<>>, error |-> "curl failed"]
  ELSE IF o.status # 200
    THEN [ok |-> FALSE, urls |-> <<>>, error |-> "unexpected status for list page"]
  ELSE [ok |-> TRUE, urls |-> Dedup(ListingOf(w, p), {}), error |-> ""]

\* Variant: an empty listing is walked like any other.
EmptyListingAccepted(us) == FALSE

\* if not urls: raise RuntimeError("no event URLs found on page=...")
EmptyListingIsFatal(us) == us = <<>>

\* Variant: the test of `remaining` at the loop head is missing.
NeverBreaks(rem) == FALSE

\* if remaining <= 0: break
LimitReached(rem) == rem <= 0

\* The page loop has another page to fetch.
LoopContinues ==
  /\ page >= end_page
  /\ args.rebuild \/ ~LimitReached(remaining)

ListPage(o) ==
  /\ pc = "list"
  /\ LoopContinues
  /\ net_log' = Append(net_log, [kind |-> "list", curl_ok |-> o.curl_ok, status |-> o.status])
  /\ LET l == EventUrlsFromListPage(o, web, page)
     IN IF ~l.ok
        THEN Abort(l.error) /\ UNCHANGED <<urls, idx, rows, sleeps>>
        ELSE IF EmptyListingIsFatal(l.urls)
        THEN /\ Abort("no event URLs found")
             /\ urls' = l.urls
             /\ UNCHANGED <<idx, rows, sleeps>>
        ELSE /\ urls' = l.urls
             /\ sleeps' = Slept(args, net_log', sleeps)
             /\ idx' = 1
             /\ rows' = <<>>
             /\ pc' = "event"
             /\ UNCHANGED <<result, error>>
  /\ UNCHANGED <<out_file, web, args, start_page, end_page, page, all_rows,
                 seen_urls, existing_urls, remaining, current_id, next_id, runs,
                 pre_file, rebuilds, cache_vars, row_vars, retries, attempt, curl_pc,
                 last_err, tries, write_vars, event_vars>>

\* `if u in seen_urls: continue` (rebuild), `if u in existing_urls: continue`
Known(u) == IF args.rebuild THEN u \in seen_urls ELSE u \in existing_urls

SkipUrl ==
  /\ pc = "event"
  /\ idx <= Len(urls)
  /\ Known(urls[idx])
  /\ idx' = idx + 1
  /\ UNCHANGED <<out_file, web, pc, args, start_page, end_page, page, urls, rows,
                 all_rows, seen_urls, existing_urls, remaining, current_id,
                 next_id, result, error, net_log, runs, pre_file, rebuilds,
                 cache_vars, row_vars, curl_vars, write_vars, event_vars>>

\* Variant: the status of the detail page is not looked at.
AnyStatusEventRow(o, fields_ok, u) ==
  IF ~o.curl_ok THEN [ok |-> FALSE, row |-> EventRowOf(u), error |-> "curl failed"]
  ELSE IF ~fields_ok /\ o.status = 200
    THEN [ok |-> FALSE, row |-> EventRowOf(u), error |-> "could not extract field"]
  ELSE [ok |-> TRUE, row |-> EventRowOf(u), error |-> ""]

\* _event_row_from_url on one fetch outcome; fields_ok: the page served has
\* every required field (title, date, participants).  [ok, row, error]
EventRowFromUrl(o, fields_ok, u) ==
  IF ~o.curl_ok THEN [ok |-> FALSE, row |-> EventRowOf(u), error |-> "curl failed"]
  ELSE IF o.status # 200
    THEN [ok |-> FALSE, row |-> EventRowOf(u), error |-> "unexpected status for event"]
  ELSE IF ~fields_ok
    THEN [ok |-> FALSE, row |-> EventRowOf(u), error |-> "could not extract field"]
  ELSE [ok |-> TRUE, row |-> EventRowOf(u), error |-> ""]

\* rows.append(_event_row_from_url(u)): nothing catches what it raises.
\* The page is fetched and its fields parsed; without --validate-slides the
\* row is complete (slide_urls = list(dict.fromkeys(slide_urls_raw))), with
\* it the candidates are checked one by one first.
ParseEvent(o, fields_ok) ==
  /\ pc = "event"
  /\ idx <= Len(urls)
  /\ ~Known(urls[idx])
  /\ seen_urls' = IF args.rebuild THEN seen_urls \cup {urls[idx]} ELSE seen_urls
  /\ net_log' = Append(net_log, [kind |-> "event", curl_ok |-> o.curl_ok, status |-> o.status])
  /\ LET e == EventRowFromUrl(o, fields_ok, urls[idx])
         row == [e.row EXCEPT !.slide_urls = Dedup(e.row.slide_urls, {})]
     IN IF ~e.ok
        THEN /\ Abort(e.error)
             /\ UNCHANGED <<idx, rows, all_rows, slide_urls_raw, slide_idx, slide_urls,
                            sleeps>>
        ELSE IF args.validate_slides
        THEN /\ pc' = "slides"
             /\ slide_urls_raw' = e.row.slide_urls
             /\ slide_idx' = 1
             /\ slide_urls' = <<>>
             /\ UNCHANGED <<idx, rows, all_rows, result, error, sleeps>>
        ELSE /\ IF args.rebuild
                THEN all_rows' = Append(all_rows, row) /\ UNCHANGED rows
                ELSE rows' = Append(rows, row) /\ UNCHANGED all_rows
             /\ sleeps' = Slept(args, net_log', sleeps)
             /\ idx' = idx + 1
             /\ UNCHANGED <<pc, result, error, slide_urls_raw, slide_idx, slide_urls>>
  /\ UNCHANGED <<out_file, web, args, start_page, end_page, page, urls,
                 existing_urls, remaining, current_id, next_id, runs, pre_file,
                 rebuilds, cache_vars, hrefs, links, link_idx, finals, tweet_urls,
                 retries, attempt, curl_pc, last_err, tries, write_vars, event_vars>>

\* One turn of `for link in slide_urls_raw: if is_valid_slide_url(link): ...`
CheckSlide(resp) ==
  /\ pc = "slides"
  /\ slide_idx <= Len(slide_urls_raw)
  /\ LET link == slide_urls_raw[slide_idx]
         r == IsValidSlideUrl(slide_cache, link, resp)
     IN /\ slide_cache' = r.cache
        /\ slide_urls' = IF r.verdict THEN Append(slide_urls, link) ELSE slide_urls
        /\ net_log' = IF r.fetched
                      THEN Append(net_log,
                                  [kind |-> "slide",
                                   curl_ok |-> resp.ran /\ resp.returncode = 0,
                                   status |-> resp.status, url |-> link])
                      ELSE net_log
  /\ slide_idx' = slide_idx + 1
  /\ UNCHANGED <<out_file, web, pc, args, start_page, end_page, page, urls, idx,
                 rows, all_rows, seen_urls, existing_urls, remaining, current_id,
                 next_id, result, error, runs, pre_file, rebuilds,
                 slide_cache_path, files, pre_files, hrefs, links, link_idx, finals,
                 tweet_urls,
                 slide_urls_raw, curl_vars, write_vars, event_vars>>

\* _event_row_from_html returns the EventRow with the validated slide_urls.
RowDone ==
  /\ pc = "slides"
  /\ slide_idx > Len(slide_urls_raw)
  /\ idx \in 1..Len(urls)
  /\ LET row == [EventRowOf(urls[idx]) EXCEPT !.slide_urls = slide_urls]
     IN IF args.rebuild
        THEN all_rows' = Append(all_rows, row) /\ UNCHANGED rows
        ELSE rows' = Append(rows, row) /\ UNCHANGED all_rows
  /\ sleeps' = Slept(args, net_log, sleeps)
  /\ idx' = idx + 1
  /\ pc' = "event"
  /\ UNCHANGED <<out_file, web, args, start_page, end_page, page, urls, seen_urls,
                 existing_urls, remaining, current_id, next_id, result, error,
                 net_log, runs, pre_file, rebuilds, cache_vars, row_vars,
                 retries, attempt, curl_pc, last_err, tries, write_vars, event_vars>>

\* connpass_url of each row, as a set
UrlsOf(rs) == {rs[i].connpass_url : i \in 1..Len(rs)}

\* Variant: the cache is saved to the default path in every run.
FlushAlways(fs) == SaveSlideCache(fs, SLIDE_CACHE_DEFAULT, slide_cache)

\* _save_slide_cache() under `if args.validate_slides:`
FlushIfValidating(fs) ==
  IF args.validate_slides THEN SaveSlideCache(fs, slide_cache_path, slide_cache) ELSE fs

\* End of `for u in urls`: an incremental run sorts the page's rows, keeps
\* the first `remaining` and appends them; then the next page.  With
\* --validate-slides the cache is saved: after every page of a rebuild,
\* after every append of an incremental run.
EndPage ==
  /\ pc = "event"
  /\ idx > Len(urls)
  /\ IF args.rebuild
     THEN /\ files' = FlushIfValidating(files)
          /\ UNCHANGED <<out_file, rows, existing_urls, current_id, remaining>>
     ELSE LET kept == SliceUpTo(IncrementalSorted(rows), remaining)
          IN /\ rows' = kept
             /\ IF kept # <<>>
                THEN /\ out_file' = AppendRows(out_file, kept, current_id)
                     /\ existing_urls' = existing_urls \cup UrlsOf(kept)
                     /\ current_id' = current_id + Len(kept)
                     /\ remaining' = remaining - Len(kept)
                     /\ files' = FlushIfValidating(files)
                ELSE UNCHANGED <<out_file, existing_urls, current_id, remaining, files>>
  /\ page' = page - 1
  /\ pc' = "list"
  /\ UNCHANGED <<web, args, start_page, end_page, urls, idx, all_rows, seen_urls,
                 next_id, result, error, net_log, runs, pre_file, rebuilds,
                 slide_cache, slide_cache_path, pre_files, row_vars, curl_vars,
                 write_vars, event_vars>>

\* Variant: the truncating write_text("") is missing.
RebuildWriteNoTruncate(f, rs) == AppendRows(EnsureTableHeader(f), rs, 1)

\* out_path.write_text(""); _ensure_table_header(out_path); append_rows(.., 1)
RebuildWrite(f, rs) ==
  AppendRows(EnsureTableHeader([exists |-> TRUE, lines |-> <<>>]), rs, 1)

\* The page loop is over: a rebuild sorts and writes the Store; the cache is
\* saved with --validate-slides; return 0.
Finish ==
  /\ pc = "list"
  /\ ~LoopContinues
  /\ IF args.rebuild
     THEN /\ all_rows' = RebuildSorted(all_rows)
          /\ out_file' = RebuildWrite(out_file, all_rows')
          /\ rebuilds' = rebuilds \cup
               {[run |-> runs, start_page |-> start_page, end_page |-> end_page,
                 lines |-> out_file'.lines]}
     ELSE UNCHANGED <<all_rows, out_file, rebuilds>>
  /\ files' = FlushIfValidating(files)
  /\ pc' = "idle"
  /\ result' = "ok"
  /\ UNCHANGED <<web, args, start_page, end_page, page, urls, idx, rows, seen_urls,
                 existing_urls, remaining, current_id, next_id, error, net_log,
                 runs, pre_file, slide_cache, slide_cache_path, pre_files, row_vars,
                 curl_vars, write_vars, event_vars>>

Next ==
  \/ \E a \in ArgSpace : StartRun(a)
  \/ \E resp \in ProbeResponses(web) : DetectOldestPage(resp)
  \/ Setup
  \/ \E o \in FetchOutcomes : ListPage(o)
  \/ SkipUrl
  \/ \E o \in FetchOutcomes, fields_ok \in BOOLEAN : ParseEvent(o, fields_ok)
  \/ EndPage
  \/ Finish

Spec == Init /\ [][Next]_vars

(* ------------------- runs with --validate-slides ---------------------- *)
\* The run is interrupted (KeyboardInterrupt, a signal): main() is left
\* where it is, nothing more is written.
Interrupt ==
  /\ pc # "idle"
  /\ pc' = "idle"
  /\ result' = "interrupted"
  /\ error' = "KeyboardInterrupt"
  /\ UNCHANGED <<out_file, web, args, start_page, end_page, page, urls, idx, rows,
                 all_rows, seen_urls, existing_urls, remaining, current_id, next_id,
                 net_log, runs, pre_file, rebuilds, cache_vars, row_vars, curl_vars,
                 write_vars, event_vars>>

\* --validate-slides with the oldest page auto-detected and the walk going
\* down to page 1: a rebuild, or an incremental run with a limit; and the
\* runs down to page 1 without --validate-slides (and without --sleep),
\* which find the cache file that the runs before them left.
ArgSpaceValidate ==
  {a \in [rebuild : BOOLEAN,
          start_page : {0},
          end_page : {<<1>>, <<MaxPage + 1>>},
          limit : {MaxLimit, LIMIT_DEFAULT},
          validate_slides : BOOLEAN,
          sleep : {0, SLEEP_GIVEN}] :
     /\ IF a.rebuild THEN a.limit = LIMIT_DEFAULT ELSE a.limit = MaxLimit
     /\ a.validate_slides \/ (a.sleep = 0 /\ a.end_page = <<1>>)}

\* The cache file before the first run: none, one cut short, one with a
\* "not live" entry.
CacheFilesAtStart ==
  {Absent,
   [exists |-> TRUE, text |-> [open |-> TRUE, items |-> <<<<S1, FALSE>>>>, close |-> FALSE]],
   [exists |-> TRUE, text |-> Dumps(Put(EmptyDict, S2, FALSE))]}

InitValidate ==
  /\ out_file = [exists |-> FALSE, lines |-> <<>>]
  /\ web = SlideWeb
  /\ WalkIdle
  /\ slide_cache = EmptyDict
  /\ slide_cache_path = None
  /\ \E f \in CacheFilesAtStart :
       files = [p \in Paths |-> IF p = SLIDE_CACHE_DEFAULT THEN f ELSE Absent]
  /\ pre_files = files
  /\ RowIdle /\ CurlIdle /\ WriteIdle /\ EventIdle

NextValidate ==
  \/ \E a \in ArgSpaceValidate : StartRun(a)
  \/ \E resp \in ProbeResponses(web) : DetectOldestPage(resp)
  \/ Setup
  \/ \E o \in FetchOutcomes : ListPage(o)
  \/ SkipUrl
  \/ \E o \in FetchOutcomes, fields_ok \in BOOLEAN : ParseEvent(o, fields_ok)
  \/ \E resp \in SlideResponses : CheckSlide(resp)
  \/ RowDone
  \/ EndPage
  \/ Finish
  \/ Interrupt

SpecValidate == InitValidate /\ [][NextValidate]_vars

(* --------------- _save_slide_cache, statement by statement ------------ *)
\* The dicts _SLIDE_CACHE can be over two URLs.
CacheDicts ==
  {d \in SUBSET ({S1, S2} \X BOOLEAN) : \A e1, e2 \in d : e1[1] = e2[1] => e1 = e2}

\* The first n pieces of a text: nothing, the "{", the "{" and n - 1 items.
CutText(t, n) ==
  IF n = 0 THEN EmptyText
  ELSE [open |-> TRUE, items |-> SubSeq(t.items, 1, n - 1), close |-> FALSE]

\* A call of _save_slide_cache: any dict in memory, with or without a cache
\* path, over any complete cache file or none, with or without a temporary
\* file that an earlier call left behind.
InitSave ==
  /\ out_file = [exists |-> FALSE, lines |-> <<>>]
  /\ web = SlideWeb
  /\ WalkIdle
  /\ slide_cache \in CacheDicts
  /\ slide_cache_path \in {None, SLIDE_CACHE_DEFAULT}
  /\ \E d \in CacheDicts, had_file, had_tmp \in BOOLEAN :
       files = [p \in Paths |->
                  IF p = SLIDE_CACHE_DEFAULT
                  THEN (IF had_file THEN [exists |-> TRUE, text |-> Dumps(d)] ELSE Absent)
                  ELSE (IF had_tmp THEN [exists |-> TRUE, text |-> CutText(Dumps(d), 1)]
                        ELSE Absent)]
  /\ pre_files = files
  /\ RowIdle /\ CurlIdle /\ EventIdle
  /\ wr_pc = "idle" /\ wr_lines = <<>> /\ wr_idx = 0
  /\ save_pc = "called"

SaveFrame ==
  UNCHANGED <<walk_vars, slide_cache, slide_cache_path, pre_files, row_vars,
              curl_vars, wr_pc, wr_lines, wr_idx, event_vars>>

\* if _SLIDE_CACHE_PATH is None: return
SaveNoPath ==
  /\ save_pc = "called"
  /\ slide_cache_path = None
  /\ save_pc' = "returned"
  /\ UNCHANGED files
  /\ SaveFrame

\* tmp_path.write_text(json.dumps(_SLIDE_CACHE, ...)) has run to its end
SaveWriteTmp ==
  /\ save_pc = "called"
  /\ slide_cache_path # None
  /\ files' = [files EXCEPT ![WithSuffix(slide_cache_path, TMP_SUFFIX)] =
                 [exists |-> TRUE, text |-> Dumps(slide_cache)]]
  /\ save_pc' = "written"
  /\ SaveFrame

\* The process dies inside write_text: the file is open, so truncated, and
\* holds the first n pieces of the text.
SaveCutShort(n) ==
  /\ save_pc = "called"
  /\ slide_cache_path # None
  /\ files' = [files EXCEPT ![WithSuffix(slide_cache_path, TMP_SUFFIX)] =
                 [exists |-> TRUE, text |-> CutText(Dumps(slide_cache), n)]]
  /\ save_pc' = "dead"
  /\ SaveFrame

\* The process dies before write_text opens the file or before the rename.
SaveStopped ==
  /\ save_pc \in {"called", "written"}
  /\ save_pc' = "dead"
  /\ UNCHANGED files
  /\ SaveFrame

\* tmp_path.replace(_SLIDE_CACHE_PATH)
SaveReplace ==
  /\ save_pc = "written"
  /\ files' = Replace(files, WithSuffix(slide_cache_path, TMP_SUFFIX), slide_cache_path)
  /\ save_pc' = "returned"
  /\ SaveFrame

NextSave ==
  \/ SaveNoPath
  \/ SaveWriteTmp
  \/ \E n \in 0..(Cardinality(slide_cache) + 1) : SaveCutShort(n)
  \/ SaveStopped
  \/ SaveReplace

SpecSave == InitSave /\ [][NextSave]_vars

(* ------------- writing the Store, statement by statement ------------- *)
\* The `lines` that append_rows builds before it opens the file.
LinesOf(rs, start_id) == [i \in 1..Len(rs) |-> RowLine(RowCells(rs[i], start_id + i - 1))]

\* The Store before the write: the header alone, or with one row.
StoresBefore ==
  {EnsureTableHeader([exists |-> FALSE, lines |-> <<>>]),
   AppendRows(EnsureTableHeader([exists |-> FALSE, lines |-> <<>>]), <<EventRowOf(U3)>>, 1)}

\* The rows to write: one or two.
Batches ==
  {<<EventRowOf(U1)>>, <<EventRowOf(U2)>>, <<EventRowOf(U1), EventRowOf(U2)>>,
   <<EventRowOf(U4), EventRowOf(U1)>>}

\* The write of an incremental run (append_rows(out_path, rows, current_id))
\* or of a rebuild (write_text(""), _ensure_table_header, append_rows(.., 1)).
InitAppend ==
  /\ out_file \in StoresBefore
  /\ web = SlideWeb
  /\ pc = "idle"
  /\ \E rebuild \in BOOLEAN : args = [NoArgs EXCEPT !.rebuild = rebuild]
  /\ \E batch \in Batches :
       IF args.rebuild THEN all_rows = batch /\ rows = <<>>
       ELSE rows = batch /\ all_rows = <<>>
  /\ start_page = 0 /\ end_page = 0 /\ page = 0
  /\ urls = <<>> /\ idx = 0
  /\ seen_urls = {} /\ existing_urls = {}
  /\ remaining = 0 /\ next_id = 0
  /\ current_id = IF args.rebuild THEN 1 ELSE NextIdFromFile(out_file)
  /\ result = "none" /\ error = ""
  /\ net_log = <<>>
  /\ runs = 0
  /\ pre_file = out_file
  /\ rebuilds = {}
  /\ CacheIdle /\ RowIdle /\ CurlIdle /\ EventIdle
  /\ wr_pc = IF args.rebuild THEN "truncate" ELSE "called"
  /\ wr_lines = <<>> /\ wr_idx = 0
  /\ save_pc = "idle"

WriteFrame ==
  UNCHANGED <<web, pc, args, start_page, end_page, page, urls, idx, rows, all_rows,
              seen_urls, existing_urls, remaining, current_id, next_id, result,
              error, net_log, runs, pre_file, rebuilds, cache_vars, row_vars,
              curl_vars, save_pc, event_vars>>

\* out_path.write_text("")
WriteTruncate ==
  /\ wr_pc = "truncate"
  /\ out_file' = [exists |-> TRUE, lines |-> <<>>]
  /\ wr_pc' = "header"
  /\ UNCHANGED <<wr_lines, wr_idx>>
  /\ WriteFrame

\* _ensure_table_header(out_path)
WriteHeader ==
  /\ wr_pc = "header"
  /\ out_file' = EnsureTableHeader(out_file)
  /\ wr_pc' = "called"
  /\ UNCHANGED <<wr_lines, wr_idx>>
  /\ WriteFrame

\* append_rows builds `lines` and opens the file for appending.
AppendOpen ==
  /\ wr_pc = "called"
  /\ wr_lines' = LinesOf(IF args.rebuild THEN all_rows ELSE rows, current_id)
  /\ wr_idx' = 1
  /\ out_file' = [out_file EXCEPT !.exists = TRUE]
  /\ wr_pc' = "writing"
  /\ WriteFrame

\* f.write(line): the line is in the buffer of f.
WriteLine ==
  /\ wr_pc = "writing"
  /\ wr_idx <= Len(wr_lines)
  /\ wr_idx' = wr_idx + 1
  /\ UNCHANGED <<out_file, wr_pc, wr_lines>>
  /\ WriteFrame

\* The loop is over; leaving `with` closes f and the buffer goes to the file.
AppendClose ==
  /\ wr_pc = "writing"
  /\ wr_idx > Len(wr_lines)
  /\ out_file' = [out_file EXCEPT !.lines = out_file.lines \o wr_lines]
  /\ wr_pc' = "returned"
  /\ UNCHANGED <<wr_lines, wr_idx>>
  /\ WriteFrame

\* An exception (KeyboardInterrupt) arrives in the loop: leaving `with`
\* closes f, and the lines written so far go to the file.
AppendRaised ==
  /\ wr_pc = "writing"
  /\ wr_idx <= Len(wr_lines)
  /\ out_file' = [out_file EXCEPT !.lines = out_file.lines \o SubSeq(wr_lines, 1, wr_idx - 1)]
  /\ wr_pc' = "dead"
  /\ UNCHANGED <<wr_lines, wr_idx>>
  /\ WriteFrame

\* The process is killed in the loop or before the close: of the lines
\* written so far, the file has what the buffer had passed on when it was
\* full: k whole lines and the first j characters of the next one.
AppendKilled(k, j) ==
  /\ wr_pc = "writing"
  /\ k + (IF j > 0 THEN 1 ELSE 0) <= wr_idx - 1
  /\ j > 0 => j < Len(wr_lines[k + 1])
  /\ out_file' = [out_file EXCEPT !.lines =
                    out_file.lines \o SubSeq(wr_lines, 1, k)
                      \o (IF j > 0 THEN <<SubSeq(wr_lines[k + 1], 1, j)>> ELSE <<>>)]
  /\ wr_pc' = "dead"
  /\ UNCHANGED <<wr_lines, wr_idx>>
  /\ WriteFrame

\* The process dies between two of the statements before the loop.
WriteStopped ==
  /\ wr_pc \in {"truncate", "header", "called"}
  /\ wr_pc' = "dead"
  /\ UNCHANGED <<out_file, wr_lines, wr_idx>>
  /\ WriteFrame

\* Length of the longest line being written.
MaxLineLen == SetMax({0} \cup {Len(wr_lines[i]) : i \in 1..Len(wr_lines)})

NextAppend ==
  \/ WriteTruncate
  \/ WriteHeader
  \/ AppendOpen
  \/ WriteLine
  \/ AppendClose
  \/ AppendRaised
  \/ \E k \in 0..Len(wr_lines), j \in 0..MaxLineLen : AppendKilled(k, j)
  \/ WriteStopped

SpecAppend == InitAppend /\ [][NextAppend]_vars

(* ------------------------------ _run_curl ----------------------------- *)
\* What one run of curl gives: exit code 0, or a non-zero code and stderr.
CurlRuns ==
  {[returncode |-> 0, stderr |-> ""],
   [returncode |-> 6, stderr |-> "could not resolve host"],
   [returncode |-> 28, stderr |-> "operation timed out"]}

\* range(max(1, retries + 1))
AttemptsPlanned(r) == IF r + 1 > 1 THEN r + 1 ELSE 1

\* Variant: every failed attempt is followed by a sleep and `continue`.
RetryAlways(a, r) == TRUE

\* if attempt < retries
RetryLeft(a, r) == a < r

BACKOFF_CAP == 6

\* Variant: the backoff doubles without a cap.
BackoffUncapped(a) == 2 ^ a

\* min(6, 1.0 * (2**attempt))
Backoff(a) == Min(BACKOFF_CAP, 2 ^ a)

\* A call _run_curl(url, retries=r) with r from 0 up to the bound.
InitCurl ==
  /\ out_file = [exists |-> FALSE, lines |-> <<>>]
  /\ web = SlideWeb
  /\ WalkIdle
  /\ CacheIdle /\ RowIdle /\ WriteIdle /\ EventIdle
  /\ retries \in 0..MaxRetries
  /\ attempt = 0
  /\ curl_pc = "loop"
  /\ last_err = ""
  /\ sleeps = <<>>
  /\ tries = <<>>

CurlFrame ==
  UNCHANGED <<out_file, web, pc, args, start_page, end_page, page, urls, idx, rows,
              all_rows, seen_urls, existing_urls, remaining, current_id, next_id,
              result, net_log, runs, pre_file, rebuilds, cache_vars, row_vars,
              write_vars, event_vars, retries>>

\* One turn of `for attempt in range(...)`: curl is run; exit code 0 breaks
\* out of the loop; otherwise stderr is kept and the turn ends with a sleep
\* and `continue`, or with the RuntimeError that carries last_err.
CurlAttempt(run) ==
  /\ curl_pc = "loop"
  /\ attempt < AttemptsPlanned(retries)
  /\ tries' = Append(tries, run)
  /\ IF run.returncode = 0
     THEN /\ curl_pc' = "parse"
          /\ UNCHANGED <<attempt, last_err, sleeps, error>>
     ELSE /\ last_err' = run.stderr
          /\ IF RetryLeft(attempt, retries)
             THEN /\ sleeps' = Append(sleeps, Backoff(attempt))
                  /\ attempt' = attempt + 1
                  /\ UNCHANGED <<curl_pc, error>>
             ELSE /\ curl_pc' = "raised"
                  /\ error' = last_err'
                  /\ UNCHANGED <<attempt, sleeps>>
  /\ CurlFrame

\* After the loop: the meta line is looked up in the output and parsed.
CurlParse(meta) ==
  /\ curl_pc = "parse"
  /\ IF meta = "ok"
     THEN curl_pc' = "returned" /\ UNCHANGED error
     ELSE curl_pc' = "raised" /\ error' = meta
  /\ UNCHANGED <<attempt, last_err, sleeps, tries>>
  /\ CurlFrame

NextCurl ==
  \/ \E run \in CurlRuns : CurlAttempt(run)
  \/ \E meta \in {"ok", "unexpected curl output", "unexpected curl meta"} : CurlParse(meta)

SpecCurl == InitCurl /\ [][NextCurl]_vars

(* --------------------- links of an event page ------------------------- *)
\* A URL is [scheme, host, path]: host is the list of its labels as written,
\* path the list of its segments, so "https://togetter.com/li/1" has host
\* <<"togetter", "com">> and path <<"li", "1">>.
SLIDE_DOMAINS ==
  {<<"speakerdeck", "com">>, <<"www", "slideshare", "net">>, <<"slideshare", "net">>,
   <<"docs", "google", "com">>}

SHORTENER_DOMAINS ==
  {<<"t", "co">>, <<"bit", "ly">>, <<"tinyurl", "com">>, <<"goo", "gl">>,
   <<"buff", "ly">>, <<"ow", "ly">>}

\* the hosts _normalize_candidate_url accepts without a scheme
BARE_HOSTS ==
  {<<"togetter", "com">>, <<"posfie", "com">>, <<"speakerdeck", "com">>,
   <<"slideshare", "net">>, <<"www", "slideshare", "net">>, <<"docs", "google", "com">>}

TWEET_DOMAINS ==
  {<<"togetter", "com">>, <<"posfie", "com">>, <<"min", "togetter", "com">>,
   <<"twilog", "togetter", "com">>}

\* str.lower() on one label of a host
LowerLabel(l) == IF l = "Togetter" THEN "togetter" ELSE l

\* (urlparse(url).netloc or "").lower()
Domain(url) == [i \in 1..Len(url.host) |-> LowerLabel(url.host[i])]

\* d.endswith("." + sd)
EndsWithDot(d, sd) ==
  Len(d) > Len(sd) /\ SubSeq(d, Len(d) - Len(sd) + 1, Len(d)) = sd

\* path.startswith("/" + seg + "/")
PathStartsWith(path, seg) == Len(path) >= 2 /\ path[1] = seg

\* "/presentation/" in link
HasPresentation(url) ==
  \E i \in 1..(Len(url.path) - 1) : url.path[i] = "presentation"

\* Variant: every host of the togetter.com family with /li/ or /id/.
IsTweetSummaryUrlFamily(url) ==
  LET host == Domain(url)
  IN IF host = <<"togetter", "com">> \/ EndsWithDot(host, <<"togetter", "com">>)
     THEN PathStartsWith(url.path, "li") \/ PathStartsWith(url.path, "id")
     ELSE host = <<"posfie", "com">> \/ EndsWithDot(host, <<"posfie", "com">>)

IsTweetSummaryUrl(url) ==
  LET host == Domain(url)
  IN IF host \in {<<"togetter", "com">>, <<"min", "togetter", "com">>}
     THEN PathStartsWith(url.path, "li") \/ PathStartsWith(url.path, "id")
     ELSE IF EndsWithDot(host, <<"togetter", "com">>) THEN FALSE
     ELSE IF host = <<"posfie", "com">> \/ EndsWithDot(host, <<"posfie", "com">>) THEN TRUE
     ELSE IF host = <<"twilog", "togetter", "com">> THEN TRUE
     ELSE FALSE

\* the slide branch of the link loop, taken when the link is no tweet summary
IsSlideCandidate(url) ==
  LET d == Domain(url)
  IN /\ \E sd \in SLIDE_DOMAINS : d = sd \/ EndsWithDot(d, sd)
     /\ ~(d = <<"docs", "google", "com">> /\ ~HasPresentation(url))

\* A candidate as found in the page: the text before the host ("https://",
\* "http://", "//" or nothing), host, path, and a character after it that
\* the page's prose left there.
Href(prefix, host, path, trail) ==
  [prefix |-> prefix, host |-> host, path |-> path, trail |-> trail]

Url(scheme, host, path) == [scheme |-> scheme, host |-> host, path |-> path]

\* _normalize_candidate_url: the trailing character is stripped; "//" gets
\* "https:", a scheme is kept, "www." and the known hosts get "https://",
\* anything else is None.
NormalizeCandidateUrl(raw) ==
  IF raw.prefix = "//" THEN <<Url("https", raw.host, raw.path)>>
  ELSE IF raw.prefix \in {"http://", "https://"}
       THEN <<Url(IF raw.prefix = "http://" THEN "http" ELSE "https",
                  raw.host, raw.path)>>
  ELSE IF raw.host[1] = "www" THEN <<Url("https", raw.host, raw.path)>>
  ELSE IF raw.host \in BARE_HOSTS THEN <<Url("https", raw.host, raw.path)>>
  ELSE None

\* _extract_links: normalize each candidate, drop None and what was seen
RECURSIVE ExtractLinksFrom(_, _)
ExtractLinksFrom(hs, seen) ==
  IF hs = <<>> THEN <<>>
  ELSE LET n == NormalizeCandidateUrl(Head(hs))
       IN IF n = None \/ (n # None /\ n[1] \in seen)
          THEN ExtractLinksFrom(Tail(hs), seen)
          ELSE <<n[1]>> \o ExtractLinksFrom(Tail(hs), seen \cup {n[1]})

T1 == Url("https", <<"togetter", "com">>, <<"li", "1">>)
D1 == Url("https", <<"speakerdeck", "com">>, <<"u", "deck">>)
ShortA == Url("https", <<"bit", "ly">>, <<"a">>)
ShortB == Url("https", <<"bit", "ly">>, <<"b">>)
ShortC == Url("https", <<"t", "co">>, <<"c">>)

\* where the short links of the page lead (curl -L, %{url_effective})
Effective(link) == IF link \in {ShortA, ShortB} THEN T1 ELSE D1

Hrefs ==
  {Href("https://", T1.host, T1.path, ""),
   Href("//", T1.host, T1.path, ""),
   Href("http://", <<"Togetter", "com">>, <<"li", "1">>, ""),
   Href("https://", <<"togetter", "com">>, <<"about">>, ""),
   Href("https://", <<"images", "togetter", "com">>, <<"li", "1">>, ""),
   Href("https://", <<"min", "togetter", "com">>, <<"li", "1">>, ""),
   Href("https://", <<"twilog", "togetter", "com">>, <<"li", "1">>, ""),
   Href("https://", <<"twilog", "togetter", "com">>, <<"user">>, ""),
   Href("https://", <<"posfie", "com">>, <<"t", "1">>, ""),
   Href("https://", ShortA.host, ShortA.path, ""),
   Href("https://", ShortB.host, ShortB.path, ""),
   Href("https://", ShortC.host, ShortC.path, ""),
   Href("https://", D1.host, D1.path, ""),
   Href("", D1.host, D1.path, ")"),
   Href("https://", <<"docs", "google", "com">>, <<"presentation", "d", "1">>, ""),
   Href("https://", <<"docs", "google", "com">>, <<"document", "d", "1">>, ""),
   Href("https://", <<"example", "com">>, <<"x">>, ""),
   Href("", <<"example", "com">>, <<"x">>, "")}

HrefLists == UNION {[1..n -> Hrefs] : n \in 0..MaxLinks}

\* (validate_slides, resolve_shorteners) as the callers pass them: a fetched
\* page with or without --validate-slides, and a page read from --raw-dir.
LinkArgs ==
  {[validate_slides |-> TRUE, resolve_shorteners |-> TRUE],
   [validate_slides |-> FALSE, resolve_shorteners |-> TRUE],
   [validate_slides |-> FALSE, resolve_shorteners |-> FALSE]}

\* what the validation fetch of a slide link answers here
LinkResponses ==
  {r \in SlideResponses :
     r.ran /\ r.returncode = 0 /\ r.marker /\ r.meta /\ r.title = TITLE_OK}

\* Variant: the effective URL is taken whether or not curl raised.
ResolvedAlways(link, ok) == Effective(link)

\* try: link = effective ... except Exception: pass
Resolved(link, ok) == IF ok THEN Effective(link) ELSE link

InitLinks ==
  /\ out_file = [exists |-> FALSE, lines |-> <<>>]
  /\ web = SlideWeb
  /\ start_page = 0 /\ end_page = 0 /\ page = 0
  /\ urls = <<>> /\ idx = 0
  /\ rows = <<>> /\ all_rows = <<>>
  /\ seen_urls = {} /\ existing_urls = {}
  /\ remaining = 0 /\ current_id = 0 /\ next_id = 0
  /\ result = "none" /\ error = ""
  /\ net_log = <<>> /\ runs = 0
  /\ pre_file = out_file /\ rebuilds = 0
  /\ CacheIdle /\ CurlIdle /\ WriteIdle /\ EventIdle
  /\ args \in LinkArgs
  /\ pc = "extract"
  /\ hrefs \in HrefLists
  /\ links = <<>> /\ link_idx = 0 /\ finals = <<>>
  /\ tweet_urls = <<>> /\ slide_urls_raw = <<>>
  /\ slide_idx = 0 /\ slide_urls = <<>>

LinksFrame ==
  UNCHANGED <<out_file, web, args, start_page, end_page, page, urls, idx, rows,
              all_rows, seen_urls, existing_urls, remaining, current_id, next_id,
              result, error, runs, pre_file, rebuilds, curl_vars, write_vars, event_vars,
              hrefs>>

\* links = _extract_links(html)
ExtractLinks ==
  /\ pc = "extract"
  /\ links' = ExtractLinksFrom(hrefs, {})
  /\ link_idx' = 1
  /\ pc' = "links"
  /\ UNCHANGED <<finals, tweet_urls, slide_urls_raw, slide_idx, slide_urls, net_log,
                 cache_vars>>
  /\ LinksFrame

\* One turn of `for link in links`: a link of a shortener host is resolved
\* with a HEAD fetch when resolve_shorteners is set (ok says whether
\* _run_curl returned); then the link goes to tweet_urls, to slide_urls_raw
\* or nowhere.
ClassifyLink(ok) ==
  /\ pc = "links"
  /\ link_idx <= Len(links)
  /\ LET orig == links[link_idx]
         resolving == args.resolve_shorteners /\ Domain(orig) \in SHORTENER_DOMAINS
         link == IF resolving THEN Resolved(orig, ok) ELSE orig
     IN /\ resolving \/ ok
        /\ net_log' = IF resolving
                      THEN Append(net_log, [kind |-> "resolve", curl_ok |-> ok,
                                            status |-> 0, url |-> orig])
                      ELSE net_log
        /\ finals' = Append(finals, link)
        /\ IF IsTweetSummaryUrl(link)
           THEN tweet_urls' = Append(tweet_urls, link) /\ UNCHANGED slide_urls_raw
           ELSE IF IsSlideCandidate(link)
           THEN slide_urls_raw' = Append(slide_urls_raw, link) /\ UNCHANGED tweet_urls
           ELSE UNCHANGED <<tweet_urls, slide_urls_raw>>
  /\ link_idx' = link_idx + 1
  /\ UNCHANGED <<pc, links, slide_idx, slide_urls, cache_vars>>
  /\ LinksFrame

\* After the loop: start validating, or slide_urls = list(dict.fromkeys(...)).
LinksDone ==
  /\ pc = "links"
  /\ link_idx > Len(links)
  /\ IF args.validate_slides
     THEN pc' = "slides" /\ slide_idx' = 1 /\ slide_urls' = <<>>
     ELSE pc' = "built" /\ slide_urls' = Dedup(slide_urls_raw, {}) /\ UNCHANGED slide_idx
  /\ UNCHANGED <<links, link_idx, finals, tweet_urls, slide_urls_raw, net_log, cache_vars>>
  /\ LinksFrame

\* return EventRow(..., tweet_urls=tweet_urls, slide_urls=slide_urls, ...)
RowBuilt ==
  /\ pc = "slides"
  /\ slide_idx > Len(slide_urls_raw)
  /\ pc' = "built"
  /\ UNCHANGED <<net_log, cache_vars, links, link_idx, finals, tweet_urls,
                 slide_urls_raw, slide_idx, slide_urls>>
  /\ LinksFrame

NextLinks ==
  \/ ExtractLinks
  \/ \E ok \in BOOLEAN : ClassifyLink(ok)
  \/ LinksDone
  \/ \E resp \in LinkResponses : CheckSlide(resp)
  \/ RowBuilt

SpecLinks == InitLinks /\ [][NextLinks]_vars

(* ----------------------- _event_row_from_url -------------------------- *)
\* `part in text`, both lists of tokens
Contains(text, part) ==
  \E i \in 0..(Len(text) - Len(part)) : SubSeq(text, i + 1, i + Len(part)) = part

\* The texts of the source that are not ASCII, by name.
VENUE_TBD == "mitei"              \* the placeholder venue, also the mode "undetermined"
ONLINE_JA == "onrain"             \* the word "online" in Japanese, also the mode "online"
MODE_HYBRID == "onrain / taimen"  \* the mode "online / in person"
MODE_ONSITE == "taimen"           \* the mode "in person"

\* online_keywords; the last two are "streaming" and "webinar" in Japanese
ONLINE_KEYWORDS ==
  {<<ONLINE_JA>>, <<"Zoom">>, <<"Teams">>, <<"Google", SP, "Meet">>, <<"YouTube">>,
   <<"haishin">>, <<"uebinaa">>}

\* Variant: an online keyword never makes an event hybrid.
InferModeNoHybrid(venue_name, address) ==
  LET venue == Strip(venue_name)
      adr == Strip(address)
      combined == venue \o <<SP>> \o adr
      is_online == \E k \in ONLINE_KEYWORDS : Contains(combined, k)
  IN IF venue = <<VENUE_TBD>> /\ adr = <<>> THEN VENUE_TBD
     ELSE IF is_online \/ venue = <<ONLINE_JA>> \/ adr = <<ONLINE_JA>> THEN ONLINE_JA
     ELSE IF adr # <<>> THEN MODE_ONSITE
     ELSE VENUE_TBD

InferMode(venue_name, address) ==
  LET venue == Strip(venue_name)
      adr == Strip(address)
      combined == venue \o <<SP>> \o adr
      is_online == \E k \in ONLINE_KEYWORDS : Contains(combined, k)
  IN IF venue = <<VENUE_TBD>> /\ adr = <<>> THEN VENUE_TBD
     ELSE IF is_online /\ adr # <<>> /\ adr # <<ONLINE_JA>> THEN MODE_HYBRID
     ELSE IF is_online \/ venue = <<ONLINE_JA>> \/ adr = <<ONLINE_JA>> THEN ONLINE_JA
     ELSE IF adr # <<>> THEN MODE_ONSITE
     ELSE VENUE_TBD

(* ------------- the fields _event_row_from_html extracts ------------- *)
\* More texts of the source that are not ASCII, by name.
TAIKAI == "taikai"                \* "convention", as in "LT taikai"
HANDSON_JA == "hanzuon"           \* "hands-on"
TYPE_MAIN == "hontai"             \* the event type "main"
TYPE_LT == "LT taikai"            \* the event type of an LT convention
DAI == "dai"                      \* the ordinal prefix of "the N-th time"
KAI == "kai"                      \* its suffix; "kaime" starts with it
SUN == "Sun"                      \* the weekday of the worked example
WAVE_DASH == "wave dash"          \* U+FF5E
FW_TILDE == "fullwidth tilde"     \* U+301C
NBSP == "&nbsp;"
NBSP_NUM == "&#160;"
CTRL == "\\x07"                   \* a control character
TAG_OPEN == "<span>"
TAG_CLOSE == "</span>"

DateTokens == {"2024/03/10", "2023/01/15"}
TimeTokens == {"19:00", "21:00"}
DigitTokens == {"5", "12"}
WordTokens == {"LT", "lt", "vol", "Vol", "Meetup", "lunch", "time", "input", TAIKAI,
               HANDSON_JA, DAI, KAI} \cup DigitTokens

\* str.lower() on the words that occur here
LowerWord(t) == IF t = "LT" THEN "lt" ELSE IF t = "Vol" THEN "vol" ELSE t

LowerText(s) == [i \in 1..Len(s) |-> LowerWord(s[i])]

\* re.sub(r"<[^>]+>", "", s)
RECURSIVE StripTags(_)
StripTags(s) ==
  IF s = <<>> THEN <<>>
  ELSE IF Head(s) \in {TAG_OPEN, TAG_CLOSE, BR} THEN StripTags(Tail(s))
  ELSE <<Head(s)>> \o StripTags(Tail(s))

\* re.sub(r"[\x00-\x1f\x7f]", "", s): the line feed is one of them
RECURSIVE DropControls(_)
DropControls(s) ==
  IF s = <<>> THEN <<>>
  ELSE IF Head(s) \in {CTRL, NL} THEN DropControls(Tail(s))
  ELSE <<Head(s)>> \o DropControls(Tail(s))

\* re.sub(r"\s+", " ", s)
RECURSIVE CollapseSpaces(_)
CollapseSpaces(s) ==
  IF s = <<>> THEN <<>>
  ELSE IF IsSpace(Head(s))
  THEN <<SP>> \o CollapseSpaces(LStrip(s))
  ELSE <<Head(s)>> \o CollapseSpaces(Tail(s))

\* _clean_text
CleanText(s) == Strip(CollapseSpaces(DropControls(s)))

\* _extract_title: the primary block when it matches, whatever its text;
\* else the title tag, whatever its text; else it raises.  The groups are
\* what the lazy (.*?) between the two \s* holds: no outer white space.
ExtractTitle(h) ==
  IF h.title_block # None
  THEN [ok |-> TRUE, title |-> CleanText(StripTags(Strip(h.title_block[1])))]
  ELSE IF h.title_tag # None
  THEN [ok |-> TRUE, title |-> CleanText(Strip(h.title_tag[1]))]
  ELSE [ok |-> FALSE, title |-> <<>>]

\* The position after the white space that starts at i (\s*).
RECURSIVE SkipSpaces(_, _)
SkipSpaces(s, i) == IF i <= Len(s) /\ IsSpace(s[i]) THEN SkipSpaces(s, i + 1) ELSE i

At(s, i) == IF i \in 1..Len(s) THEN s[i] ELSE ""

\* The least position of a set of positions, 0 when there is none.
FirstOf(S) == IF S = {} THEN 0 ELSE CHOOSE i \in S : \A j \in S : i <= j

\* vol\.?\s*(\d+) at position i: the position of the number, else 0
VolAt(s, i) ==
  LET j == IF At(s, i + 1) = "." THEN i + 2 ELSE i + 1
      k == SkipSpaces(s, j)
  IN IF LowerWord(At(s, i)) = "vol" /\ At(s, k) \in DigitTokens THEN k ELSE 0

\* (?:^|[^\w])#\s*(\d+)\b at position i
HashAt(s, i) ==
  LET k == SkipSpaces(s, i + 1)
  IN IF /\ At(s, i) = "#"
        /\ (i = 1 \/ At(s, i - 1) \notin WordTokens)
        /\ At(s, k) \in DigitTokens
        /\ At(s, k + 1) \notin WordTokens
     THEN k ELSE 0

\* the ordinal pattern at position i: DAI \s* (\d+) \s* KAI
OrdinalAt(s, i) ==
  LET k == SkipSpaces(s, i + 1)
  IN IF At(s, i) = DAI /\ At(s, k) \in DigitTokens /\ At(s, SkipSpaces(s, k + 1)) = KAI
     THEN k ELSE 0

\* re.search of one pattern: the number of the leftmost match, None if none
\* at[j]: where the number of the match that starts at j is, 0 for no match
SearchNumber(s, at) ==
  LET i == FirstOf({j \in 1..Len(s) : at[j] # 0})
  IN IF i = 0 THEN None ELSE <<s[at[i]]>>

\* Variant: the number alone
InferVolBare(title) ==
  LET a == SearchNumber(title, [j \in 1..Len(title) |-> VolAt(title, j)])
      b == SearchNumber(title, [j \in 1..Len(title) |-> HashAt(title, j)])
      c == SearchNumber(title, [j \in 1..Len(title) |-> OrdinalAt(title, j)])
      m == IF a # None THEN a ELSE IF b # None THEN b ELSE c
  IN IF m = None THEN <<>> ELSE <<m[1]>>

\* the patterns in order; the first that matches gives f"vol.{m.group(1)}"
InferVol(title) ==
  LET a == SearchNumber(title, [j \in 1..Len(title) |-> VolAt(title, j)])
      b == SearchNumber(title, [j \in 1..Len(title) |-> HashAt(title, j)])
      c == SearchNumber(title, [j \in 1..Len(title) |-> OrdinalAt(title, j)])
      m == IF a # None THEN a ELSE IF b # None THEN b ELSE c
  IN IF m = None THEN <<>> ELSE <<"vol." \o m[1]>>

\* the event type of _infer_type_and_vol
InferType(title) ==
  LET lowered == LowerText(title)
  IN IF Contains(lowered, <<"lunch", SP, "time", SP, "input">>)
     THEN Txt("Lunch Time Input")
     ELSE IF /\ InText("lt", lowered)
             /\ (InText(TAIKAI, title) \/ Contains(lowered, <<"lt", TAIKAI>>))
     THEN Txt(TYPE_LT)
     ELSE IF InText(HANDSON_JA, title) THEN Txt(HANDSON_JA)
     ELSE Txt(TYPE_MAIN)

\* \([^)]*\) at position i: the position of the closing parenthesis, else 0
CloseParen(s, i) ==
  IF At(s, i) # "(" THEN 0 ELSE FirstOf({j \in (i + 1)..Len(s) : s[j] = ")"})

\* _extract_date: the leftmost date with a parenthesis after it, else the
\* leftmost date, else it raises.
ExtractDate(h) ==
  LET s == h.date_text
      p == FirstOf({i \in 1..Len(s) : s[i] \in DateTokens /\ CloseParen(s, i + 1) # 0})
      q == FirstOf({i \in 1..Len(s) : s[i] \in DateTokens})
  IN IF p # 0 THEN [ok |-> TRUE, date |-> <<s[p]>>]
     ELSE IF q # 0 THEN [ok |-> TRUE, date |-> <<s[q]>>]
     ELSE [ok |-> FALSE, date |-> <<>>]

\* html.replace("&nbsp;", " ").replace("&#160;", " ")
ReplaceNbsp(s) == [i \in 1..Len(s) |-> IF s[i] \in {NBSP, NBSP_NUM} THEN SP ELSE s[i]]

TIME_SEPARATORS == {WAVE_DASH, FW_TILDE, "-"}

\* date \(([^)]+)\) \s* (time) at position i: [close, start], the positions
\* of the closing parenthesis and of the start time; close = 0 when it
\* does not match.
StartAt(s, i) ==
  LET c == CloseParen(s, i + 1)
      t == SkipSpaces(s, c + 1)
  IN IF At(s, i) \in DateTokens /\ c > i + 2 /\ At(s, t) \in TimeTokens
     THEN [close |-> c, start |-> t]
     ELSE [close |-> 0, start |-> 0]

\* ... \s* (separator) \s* (time) after a start time at t: the position of
\* the end time, else 0
EndAfter(s, t) ==
  LET sep == SkipSpaces(s, t + 1)
      e == SkipSpaces(s, sep + 1)
  IN IF At(s, sep) \in TIME_SEPARATORS /\ At(s, e) \in TimeTokens THEN e ELSE 0

\* _extract_weekday_and_timerange: [weekday, time_range]
ExtractWeekdayAndTimerange(h) ==
  LET s == ReplaceNbsp(h.date_text)
      full == FirstOf({i \in 1..Len(s) :
                         StartAt(s, i).close # 0 /\ EndAfter(s, StartAt(s, i).start) # 0})
      half == FirstOf({i \in 1..Len(s) : StartAt(s, i).close # 0})
      Weekday(i) == CleanText(SubSeq(s, i + 2, StartAt(s, i).close - 1))
  IN IF full # 0
     THEN [weekday |-> Weekday(full),
           time_range |-> <<s[StartAt(s, full).start] \o "~"
                            \o s[EndAfter(s, StartAt(s, full).start)]>>]
     ELSE IF half # 0
     THEN [weekday |-> Weekday(half), time_range |-> <<s[StartAt(s, half).start] \o "~">>]
     ELSE [weekday |-> <<>>, time_range |-> <<>>]

\* _extract_participants: the number of the first pattern that matches,
\* else 0 when a no-registration marker occurs, else it raises (None here).
ExtractParticipants(h) ==
  IF h.count # None THEN h.count
  ELSE IF h.marker THEN <<0>>
  ELSE None

COULD_NOT == "could not extract participants"

\* f"{e} (url={url})"
WithUrl(e, url) == e \o <<SP, "(url=">> \o url \o <<")">>

\* Variant: `if not participants`
IsFalsy(p) == p = None \/ p = <<0>>

\* participants is None
IsNone(p) == p = None

\* _event_row_from_html up to the EventRow, links aside: [ok, row, error].
\* Whatever is raised inside its try block leaves with the URL appended.
EventRowFromHtml(h, url, participants_override, allow_missing_participants) ==
  LET t == ExtractTitle(h)
      d == ExtractDate(h)
      w == ExtractWeekdayAndTimerange(h)
      found == IF IsNone(participants_override) THEN ExtractParticipants(h)
               ELSE participants_override
      n == IF IsNone(found) THEN (IF allow_missing_participants THEN <<0>> ELSE None)
           ELSE found
      row == [vol |-> InferVol(t.title), event_type |-> InferType(t.title),
              title |-> t.title, connpass_url |-> url,
              participants |-> IF n = None THEN 0 ELSE n[1],
              date_yyyy_mm_dd |-> d.date, weekday_ja |-> w.weekday,
              time_range |-> w.time_range,
              venue_name |-> h.venue_name, address |-> h.address,
              mode |-> InferMode(h.venue_name, h.address)]
  IN IF ~t.ok
     THEN [ok |-> FALSE, row |-> row,
           error |-> WithUrl(<<"could not extract event title">>, url)]
     ELSE IF ~d.ok
     THEN [ok |-> FALSE, row |-> row, error |-> WithUrl(<<"could not extract date">>, url)]
     ELSE IF IsNone(n)
     THEN [ok |-> FALSE, row |-> row, error |-> WithUrl(<<COULD_NOT>>, url)]
     ELSE [ok |-> TRUE, row |-> row, error |-> <<>>]

RECURSIVE RStripSlash(_)
RStripSlash(s) ==
  IF s # <<>> /\ s[Len(s)] = "/" THEN RStripSlash(SubSeq(s, 1, Len(s) - 1)) ELSE s

\* url.rstrip("/") + "/participation/"
ParticipationUrl(url) == RStripSlash(url) \o <<"/", "participation", "/">>

\* what _run_curl raises, and the status errors of _event_row_from_url
CurlFailed(url) == <<"curl failed for", SP>> \o url
UnexpectedStatus(url) == <<"unexpected status for", SP>> \o url
NoParticipationPage(url) == WithUrl(<<COULD_NOT, SP, "(status=)">>, url)

Venues ==
  {<<>>, <<VENUE_TBD>>, <<SP, VENUE_TBD>>, <<ONLINE_JA>>, <<"Hall">>,
   <<"Hall", SP, "Zoom">>}

Addresses ==
  {<<>>, <<SP>>, <<ONLINE_JA>>, <<ONLINE_JA, SP>>, <<"Tokyo">>,
   <<"Tokyo", SP, "YouTube">>}

\* The page of the worked example of the parser.
TITLE_EXAMPLE == <<"LT", TAIKAI, SP, "vol", ".", "5">>
DATE_EXAMPLE == <<"2024/03/10", "(", SUN, ")", SP, "19:00", SP, WAVE_DASH, SP, "21:00">>

\* What a title block or a title tag can hold between its tags.
TitleTexts ==
  {TITLE_EXAMPLE, <<>>, <<SP, NL>>, <<TAG_OPEN, TAG_CLOSE>>, <<CTRL>>,
   <<SP, HANDSON_JA, NL, SP, "#", "12", SP>>, <<DAI, "5", KAI, SP, "Meetup">>,
   <<"lunch", SP, "time", SP, "input", SP, "Vol", SP, "12">>, <<"Meetup", "#", "5">>}

\* What a page can show of its date.
DateTexts ==
  {DATE_EXAMPLE, <<>>, <<"2023/01/15">>,
   <<"2024/03/10", "(", SUN, ")", NBSP, "19:00", NBSP_NUM, "-", "21:00">>,
   <<"2024/03/10", "(", SUN, ")", SP, "19:00", SP, "to", SP, "21:00">>,
   <<"2023/01/15", SP, "2024/03/10", "(", ")", "19:00", FW_TILDE, "21:00">>}

\* The detail pages an event URL can serve: every combination of what the
\* participants and the mode are read from, and every combination of the
\* texts the other fields are read from; and its participation sub-pages.
EventPages ==
  [got : {TRUE}, title_block : {None, <<TITLE_EXAMPLE>>}, title_tag : {None},
   date_text : {<<>>, DATE_EXAMPLE}, count : {None, <<0>>, <<7>>},
   marker : BOOLEAN, venue_name : Venues, address : Addresses]
  \cup
  [got : {TRUE}, title_block : {None} \cup {<<t>> : t \in TitleTexts},
   title_tag : {None, <<<<>>>>, <<<<SP, "Meetup", SP, "-", SP, "connpass", NL>>>>},
   date_text : DateTexts, count : {None}, marker : {TRUE},
   venue_name : {<<VENUE_TBD>>}, address : {<<>>}]

SubPages ==
  [got : {TRUE}, title_block : {None}, title_tag : {<<<<"Meetup">>>>}, date_text : {<<>>},
   count : {None, <<0>>, <<3>>}, marker : BOOLEAN, venue_name : {<<>>}, address : {<<>>}]

EventUrls == {U1, U1 \o <<"/">>}

\* A call _event_row_from_url(u) for one event URL of a listing.
InitEvent ==
  /\ out_file = [exists |-> FALSE, lines |-> <<>>]
  /\ web = SlideWeb
  /\ pc = "fetch"
  /\ args = NoArgs
  /\ start_page = 0 /\ end_page = 0 /\ page = 0
  /\ urls \in {<<u>> : u \in EventUrls} /\ idx = 1
  /\ rows = <<>> /\ all_rows = <<>> /\ seen_urls = {} /\ existing_urls = {}
  /\ remaining = 0 /\ current_id = 0 /\ next_id = 0
  /\ result = "none" /\ error = <<>>
  /\ net_log = <<>>
  /\ runs = 0
  /\ pre_file = out_file
  /\ rebuilds = {}
  /\ CacheIdle /\ RowIdle /\ CurlIdle /\ WriteIdle /\ EventIdle

EventFrame ==
  UNCHANGED <<out_file, web, args, start_page, end_page, page, urls, idx, all_rows,
              seen_urls, existing_urls, remaining, current_id, next_id, result,
              runs, pre_file, rebuilds, cache_vars, row_vars, curl_vars, write_vars,
              cells, raw_dir>>

\* status, _effective, body = _run_curl(url); the status test; the decode
FetchEvent(o, h) ==
  /\ pc = "fetch"
  /\ net_log' = Append(net_log, [kind |-> "event", curl_ok |-> o.curl_ok, status |-> o.status])
  /\ IF ~o.curl_ok
     THEN pc' = "raised" /\ error' = CurlFailed(urls[idx]) /\ UNCHANGED html
     ELSE IF o.status # 200
     THEN pc' = "raised" /\ error' = UnexpectedStatus(urls[idx]) /\ UNCHANGED html
     ELSE pc' = "parse" /\ html' = h /\ UNCHANGED error
  /\ UNCHANGED <<rows, p_html, participants>>
  /\ EventFrame

\* The first _event_row_from_html(html, ...): its row is returned; its error
\* is raised again unless it has "could not extract participants" in it.
ParseMain ==
  /\ pc = "parse"
  /\ LET r == EventRowFromHtml(html, urls[idx], None, FALSE)
     IN IF r.ok
        THEN pc' = "returned" /\ rows' = <<r.row>> /\ UNCHANGED error
        ELSE IF InText(COULD_NOT, r.error)
        THEN pc' = "sub" /\ UNCHANGED <<rows, error>>
        ELSE pc' = "raised" /\ error' = r.error /\ UNCHANGED rows
  /\ UNCHANGED <<net_log, html, p_html, participants>>
  /\ EventFrame

\* p_status, _p_eff, p_body = _run_curl(url.rstrip("/") + "/participation/")
FetchSub(o, h) ==
  /\ pc = "sub"
  /\ net_log' = Append(net_log, [kind |-> "participation", curl_ok |-> o.curl_ok,
                                 status |-> o.status])
  /\ IF ~o.curl_ok
     THEN pc' = "raised" /\ error' = CurlFailed(ParticipationUrl(urls[idx]))
          /\ UNCHANGED p_html
     ELSE IF o.status # 200
     THEN pc' = "raised" /\ error' = NoParticipationPage(urls[idx]) /\ UNCHANGED p_html
     ELSE pc' = "subparse" /\ p_html' = h /\ UNCHANGED error
  /\ UNCHANGED <<rows, html, participants>>
  /\ EventFrame

\* participants = _extract_participants(p_html), outside any try block
ParseSub ==
  /\ pc = "subparse"
  /\ LET found == ExtractParticipants(p_html)
     IN IF found = None
        THEN pc' = "raised" /\ error' = <<COULD_NOT>> /\ UNCHANGED participants
        ELSE pc' = "again" /\ participants' = found /\ UNCHANGED error
  /\ UNCHANGED <<net_log, rows, html, p_html>>
  /\ EventFrame

\* return _event_row_from_html(html, ..., participants_override=participants)
ParseAgain ==
  /\ pc = "again"
  /\ LET r == EventRowFromHtml(html, urls[idx], participants, FALSE)
     IN IF r.ok
        THEN pc' = "returned" /\ rows' = <<r.row>> /\ UNCHANGED error
        ELSE pc' = "raised" /\ error' = r.error /\ UNCHANGED rows
  /\ UNCHANGED <<net_log, html, p_html, participants>>
  /\ EventFrame

NextEvent ==
  \/ \E o \in FetchOutcomes, h \in EventPages : FetchEvent(o, h)
  \/ ParseMain
  \/ \E o \in FetchOutcomes, h \in SubPages : FetchSub(o, h)
  \/ ParseSub
  \/ ParseAgain

SpecEvent == InitEvent /\ [][NextEvent]_vars

(* ------------------ the feed builder reads the Store ------------------ *)
BSL == "\\"
AMP == "&"
AMP_ENTITY == "&amp;"

\* html.unescape on the entities that occur here
UnescapeToken(t) ==
  IF t = PIPE_ENTITY THEN PIPE ELSE IF t = AMP_ENTITY THEN AMP ELSE t

Unescape(s) == [i \in 1..Len(s) |-> UnescapeToken(s[i])]

\* .replace("\\|", "|")
RECURSIVE ReplaceBslPipe(_)
ReplaceBslPipe(s) ==
  IF s = <<>> THEN <<>>
  ELSE IF Len(s) >= 2 /\ s[1] = BSL /\ s[2] = PIPE
  THEN <<PIPE>> \o ReplaceBslPipe(SubSeq(s, 3, Len(s)))
  ELSE <<Head(s)>> \o ReplaceBslPipe(Tail(s))

\* The loop of _split_md_row from position i up to the next '|' that is not
\* escaped, or to the end of the line: current is the cell being read,
\* escaped says that the character before was a backslash.  next is the
\* position after that '|', 0 at the end of the line.
RECURSIVE ReadCell(_, _, _, _)
ReadCell(line, i, current, escaped) ==
  IF i > Len(line) THEN [cell |-> current, next |-> 0]
  ELSE IF escaped THEN ReadCell(line, i + 1, Append(current, line[i]), FALSE)
  ELSE IF line[i] = BSL THEN ReadCell(line, i + 1, current, TRUE)
  ELSE IF line[i] = PIPE THEN [cell |-> current, next |-> i + 1]
  ELSE ReadCell(line, i + 1, Append(current, line[i]), FALSE)

\* The cells the loop collects from position i on.
RECURSIVE SplitMdFrom(_, _)
SplitMdFrom(line, i) ==
  LET r == ReadCell(line, i, <<>>, FALSE)
  IN IF r.next = 0 THEN <<r.cell>> ELSE <<r.cell>> \o SplitMdFrom(line, r.next)

\* _split_md_row: split, drop an empty first and an empty last cell, then
\* strip, unescape and replace in each cell.
SplitMdRow(line) ==
  LET all == SplitMdFrom(line, 1)
      a == IF all # <<>> /\ Strip(all[1]) = <<>> THEN Tail(all) ELSE all
      b == IF a # <<>> /\ Strip(a[Len(a)]) = <<>> THEN SubSeq(a, 1, Len(a) - 1) ELSE a
  IN [i \in 1..Len(b) |-> ReplaceBslPipe(Unescape(Strip(b[i])))]

\* re.match(r"^\|\s*-", line)
IsAlignLine(line) ==
  /\ StartsWith(line, PIPE)
  /\ LET rest == LStrip(Tail(line))
     IN rest # <<>> /\ Head(rest) = ALIGN_CELLS[1]

\* "| id |" in line
IsHeaderLine(line) == Contains(line, <<PIPE, SP, "id", SP, PIPE>>)

\* parse_events up to the cells of each event: the lines that start with
\* '|', are neither the alignment nor the header line and have 11 or 14
\* cells.
RECURSIVE ParseEventsCells(_)
ParseEventsCells(lines) ==
  IF lines = <<>> THEN <<>>
  ELSE LET line == Head(lines)
           c == SplitMdRow(line)
       IN IF StartsWith(line, PIPE) /\ ~IsAlignLine(line) /\ ~IsHeaderLine(line)
             /\ Len(c) \in {11, 14}
          THEN <<c>> \o ParseEventsCells(Tail(lines))
          ELSE ParseEventsCells(Tail(lines))

\* Titles of up to MaxFieldLen characters.
FieldChars == {"c", PIPE, BSL, AMP_ENTITY}

FieldValues == UNION {[1..n -> FieldChars] : n \in 0..MaxFieldLen}

\* One event with the title drawn is about to be appended to a Store that
\* holds the header; then build_events_json.py reads the Store.
InitFeed ==
  /\ out_file = EnsureTableHeader([exists |-> FALSE, lines |-> <<>>])
  /\ web = SlideWeb
  /\ pc = "append"
  /\ args = NoArgs
  /\ start_page = 0 /\ end_page = 0 /\ page = 0
  /\ urls = <<>> /\ idx = 0
  /\ \E t \in FieldValues : rows = <<[EventRowOf(U2) EXCEPT !.title = t]>>
  /\ all_rows = <<>> /\ seen_urls = {} /\ existing_urls = {}
  /\ remaining = 0 /\ current_id = 1 /\ next_id = 1
  /\ result = "none" /\ error = ""
  /\ net_log = <<>>
  /\ runs = 0
  /\ pre_file = out_file
  /\ rebuilds = {}
  /\ CacheIdle /\ RowIdle /\ CurlIdle /\ WriteIdle /\ EventIdle

FeedFrame ==
  UNCHANGED <<web, args, start_page, end_page, page, urls, idx, rows, all_rows,
              seen_urls, existing_urls, remaining, current_id, next_id, result,
              error, net_log, runs, pre_file, rebuilds, cache_vars, row_vars,
              curl_vars, write_vars, html, p_html, participants, raw_dir>>

\* append_rows(out_path, rows, current_id)
FeedAppend ==
  /\ pc = "append"
  /\ out_file' = AppendRows(out_file, rows, current_id)
  /\ pc' = "feed"
  /\ UNCHANGED cells
  /\ FeedFrame

\* parse_events(input_path)
FeedParse ==
  /\ pc = "feed"
  /\ cells' = ParseEventsCells(out_file.lines)
  /\ pc' = "parsed"
  /\ UNCHANGED out_file
  /\ FeedFrame

NextFeed == FeedAppend \/ FeedParse

SpecFeed == InitFeed /\ [][NextFeed]_vars

(* ------------------- the probe of _detect_oldest_page ------------------ *)
\* LIST_URL_TEMPLATE.format(page=999999)
PROBE_PAGE == 999999

\* The page the probe gets: the number in the active pagination item (the
\* first one the pattern finds), the page numbers of the pagination links,
\* and the page numbers in `?page=` or `&page=` anywhere else in the page,
\* here a link back to the requested address.
ProbePages ==
  [curl_ok : {TRUE}, status : {200, 404},
   active : {{}} \cup {{n} : n \in 1..MaxPage},
   pagination : SUBSET (1..MaxPage),
   elsewhere : {{}, {PROBE_PAGE}}]
    \cup {[curl_ok |-> FALSE, status |-> 0, active |-> {}, pagination |-> {},
           elsewhere |-> {}]}

\* What the two patterns find in the page: re.findall(r"[?&]page=(\d+)", html)
\* goes over the whole page.
FoundIn(h) ==
  [curl_ok |-> h.curl_ok, status |-> h.status, active |-> h.active,
   links |-> h.pagination \cup h.elsewhere]

\* main() has been called without --start-page and is about to probe.
InitDetect ==
  /\ out_file = [exists |-> FALSE, lines |-> <<>>]
  /\ web = SlideWeb
  /\ pc = "detect"
  /\ args \in {a \in ArgSpace : a.start_page = 0 /\ a.limit \in {1, LIMIT_DEFAULT}}
  /\ start_page = 0 /\ end_page = 0 /\ page = 0
  /\ urls = <<>> /\ idx = 0
  /\ rows = <<>> /\ all_rows = <<>> /\ seen_urls = {} /\ existing_urls = {}
  /\ remaining = 0 /\ current_id = 0 /\ next_id = 0
  /\ result = "none" /\ error = ""
  /\ net_log = <<>>
  /\ runs = 1
  /\ pre_file = out_file
  /\ rebuilds = {}
  /\ CacheIdle /\ RowIdle /\ CurlIdle /\ WriteIdle
  /\ html \in ProbePages
  /\ p_html = NoPage /\ participants = None /\ cells = <<>> /\ raw_dir = NoRaw

\* start_page = _detect_oldest_page()
DetectProbe == DetectOldestPage(FoundIn(html))

NextDetect == DetectProbe \/ Setup

SpecDetect == InitDetect /\ [][NextDetect]_vars

(* ------------------ the offline rebuild of --raw-dir ------------------ *)
MaxListed == 2

EVENT_PATH == "/event/"

\* Lines of event_urls.txt: event URLs with their digits, one with the two
\* characters `\d` in the place of the digits, a URL of another kind, a
\* blank line, and an event URL with white space around it.
O1 == <<"http", EVENT_PATH, "1", "/">>
O2 == <<"http", EVENT_PATH, "2", "/">>
OB == <<"http", EVENT_PATH, BSL, "d", "/">>
OX == <<"http", "/">>
ListedLines == {O1, O2, OB, OX, <<SP>>, <<SP>> \o O1 \o <<SP>>}

ListedTexts == UNION {[1..n -> ListedLines] : n \in 0..MaxListed}

\* The names events/<name>.html can have here.
SavedNames == {<<"1">>, <<"2">>, <<BSL, "d">>}

\* Saved pages: one that shows its participants, the worked example without
\* its marker (nothing to read the participants from), and one with neither
\* a title block nor a title tag.
SavedPage(title_block, count) ==
  [got |-> TRUE, title_block |-> title_block, title_tag |-> None,
   date_text |-> DATE_EXAMPLE, count |-> count, marker |-> FALSE,
   venue_name |-> <<VENUE_TBD>>, address |-> <<>>]

RawDirs ==
  [urls_txt : {None} \cup {<<t>> : t \in ListedTexts},
   events : {e \in [SavedNames -> {None, <<SavedPage(<<TITLE_EXAMPLE>>, <<7>>)>>,
                                   <<SavedPage(<<TITLE_EXAMPLE>>, None)>>,
                                   <<SavedPage(None, None)>>}] :
               /\ e[<<"1">>] # <<SavedPage(<<TITLE_EXAMPLE>>, <<7>>)>>
               /\ e[<<"2">>] \in {None, <<SavedPage(<<TITLE_EXAMPLE>>, <<7>>)>>}
               /\ e[<<BSL, "d">>] # <<SavedPage(<<TITLE_EXAMPLE>>, <<7>>)>>}]

\* --raw-dir with or without --rebuild, and with or without --start-page.
OfflineArgs ==
  [rebuild : BOOLEAN, start_page : {0, 1}, end_page : {<<>>}, limit : {LIMIT_DEFAULT},
   validate_slides : {FALSE}, sleep : {0}]

\* The length of the run of `d` that starts at position i.
RECURSIVE RunOfD(_, _)
RunOfD(u, i) == IF At(u, i) = "d" THEN 1 + RunOfD(u, i + 1) ELSE 0

\* re.search(r"/event/(\\d+)/", u): the pattern is a backslash, then one
\* `d` or more, between "/event/" and "/".  The group of the leftmost
\* match, None when there is none.
EventIdMatch(u) ==
  LET Ends(i) == i + 2 + RunOfD(u, i + 2)
      Matches(i) ==
        /\ u[i] = EVENT_PATH /\ At(u, i + 1) = BSL
        /\ RunOfD(u, i + 2) >= 1
        /\ At(u, Ends(i)) = "/"
      i == FirstOf({j \in 1..Len(u) : Matches(j)})
  IN IF i = 0 THEN None ELSE <<SubSeq(u, i + 1, Ends(i) - 1)>>

\* [u.strip() for u in text.splitlines() if u.strip()]
RECURSIVE StrippedLines(_)
StrippedLines(t) ==
  IF t = <<>> THEN <<>>
  ELSE IF Strip(Head(t)) = <<>> THEN StrippedLines(Tail(t))
  ELSE <<Strip(Head(t))>> \o StrippedLines(Tail(t))

REQUIRES_REBUILD == "--raw-dir requires --rebuild"
MISSING_URLS == "missing event_urls.txt"

\* main() is called with --raw-dir.
InitOffline ==
  /\ out_file \in {[exists |-> FALSE, lines |-> <<>>],
                   AppendRows(EnsureTableHeader([exists |-> FALSE, lines |-> <<>>]),
                              <<EventRowOf(U2)>>, 1)}
  /\ web = SlideWeb
  /\ pc = "offline"
  /\ args \in OfflineArgs
  /\ start_page = 0 /\ end_page = 0 /\ page = 0
  /\ urls = <<>> /\ idx = 0
  /\ rows = <<>> /\ all_rows = <<>> /\ seen_urls = {} /\ existing_urls = {}
  /\ remaining = 0 /\ current_id = 0 /\ next_id = 0
  /\ result = "none" /\ error = <<>>
  /\ net_log = <<>>
  /\ runs = 1
  /\ pre_file = out_file
  /\ rebuilds = {}
  /\ CacheIdle /\ RowIdle /\ CurlIdle /\ WriteIdle
  /\ html = NoPage /\ p_html = NoPage /\ participants = None /\ cells = <<>>
  /\ raw_dir \in RawDirs

OfflineFrame ==
  UNCHANGED <<web, args, page, rows, seen_urls, existing_urls, remaining, current_id,
              next_id, net_log, runs, pre_file, rebuilds, cache_vars, row_vars,
              curl_vars, write_vars, p_html, participants, cells, raw_dir>>

\* main() from its first line to the read of event_urls.txt: --raw-dir
\* without --rebuild is refused, the oldest page is not detected, the range
\* is checked, and the list of URLs must be there.
OfflineStart ==
  /\ pc = "offline"
  /\ start_page' = args.start_page
  /\ end_page' = EndPageOf(args, start_page')
  /\ IF ~args.rebuild
     THEN Abort(<<REQUIRES_REBUILD>>) /\ UNCHANGED <<urls, idx>>
     ELSE IF RangeInvalid(end_page', start_page')
     THEN Abort(<<RANGE_MSG>>) /\ UNCHANGED <<urls, idx>>
     ELSE IF raw_dir.urls_txt = None
     THEN Abort(<<MISSING_URLS>>) /\ UNCHANGED <<urls, idx>>
     ELSE /\ urls' = StrippedLines(raw_dir.urls_txt[1])
          /\ idx' = 1
          /\ pc' = "offline_row"
          /\ UNCHANGED <<result, error>>
  /\ UNCHANGED <<out_file, all_rows, html>>
  /\ OfflineFrame

\* One turn of `for u in urls`: a URL the pattern does not match and a URL
\* without its saved page are passed over; the saved page is parsed with
\* allow_missing_participants=True, and what the parse raises leaves main().
\* The links of the page are classified without any request; the pages
\* here have none.  The mode is kept as the text of its cell.
OfflineRow ==
  /\ pc = "offline_row"
  /\ idx <= Len(urls)
  /\ LET u == urls[idx]
         m == EventIdMatch(u)
         saved == IF m = None THEN None ELSE raw_dir.events[m[1]]
         r == EventRowFromHtml(saved[1], u, None, TRUE)
         row == [vol |-> r.row.vol, event_type |-> r.row.event_type,
                 title |-> r.row.title, mode |-> Txt(r.row.mode),
                 venue_name |-> r.row.venue_name, address |-> r.row.address,
                 connpass_url |-> u, tweet_urls |-> <<>>, slide_urls |-> <<>>,
                 participants |-> r.row.participants,
                 date_yyyy_mm_dd |-> r.row.date_yyyy_mm_dd,
                 weekday_ja |-> r.row.weekday_ja, time_range |-> r.row.time_range]
     IN IF m = None \/ saved = None
        THEN /\ idx' = idx + 1
             /\ UNCHANGED <<pc, result, error, all_rows, html>>
        ELSE /\ html' = saved[1]
             /\ IF r.ok
                THEN /\ all_rows' = Append(all_rows, row)
                     /\ idx' = idx + 1
                     /\ UNCHANGED <<pc, result, error>>
                ELSE Abort(r.error) /\ UNCHANGED <<all_rows, idx>>
  /\ UNCHANGED <<out_file, start_page, end_page, urls>>
  /\ OfflineFrame

\* The loop is over: the rows are sorted and the Store is written; return 0.
OfflineWrite ==
  /\ pc = "offline_row"
  /\ idx > Len(urls)
  /\ all_rows' = RebuildSorted(all_rows)
  /\ out_file' = RebuildWrite(out_file, all_rows')
  /\ pc' = "idle"
  /\ result' = "ok"
  /\ UNCHANGED <<start_page, end_page, urls, idx, error, html>>
  /\ OfflineFrame

NextOffline == OfflineStart \/ OfflineRow \/ OfflineWrite

SpecOffline == InitOffline /\ [][NextOffline]_vars

(* ------------------------------ claims -------------------------------- *)
Last(s) == s[Len(s)]

IsPrefix(a, b) == Len(a) <= Len(b) /\ SubSeq(b, 1, Len(a)) = a

\* The lines of the Store after the two header lines.
DataLines(f) == SubSeq(f.lines, 3, Len(f.lines))

\* The source_url cell of every data line.
StoredUrls(f) == {Cols(DataLines(f)[k])[8] : k \in 1..Len(DataLines(f))}

\* Rows the current incremental run has appended so far.
Appended == current_id - next_id

\* URLs listed on the pages p with lo <= p <= hi.
ListedOn(lo, hi) ==
  UNION {{ListingOf(web, p)[i] : i \in 1..Len(ListingOf(web, p))} : p \in lo..hi}

NumFetches(kind) == Cardinality({i \in 1..Len(net_log) : net_log[i].kind = kind})

FetchFailed(e) == ~e.curl_ok \/ e.status # 200

\* Neither header line is read as a data row by int(cols[0]).
HeaderHasNoId == IntOf(Cols(HeaderLine)[1]) = {} /\ IntOf(Cols(AlignLine)[1]) = {}

\* C1: in every state of the Store, the first two lines (if any) are the
\* header lines, which carry no id, and the k-th line after them begins with
\* the cell "| k |"; whenever a run is about to read the Store, the ids that
\* int(cols[0]) reads in file order are exactly 1, 2, ..., n.
C1_IdsContiguous ==
  /\ HeaderHasNoId
  /\ \A k \in 1..Len(out_file.lines) :
       /\ k = 1 => out_file.lines[k] = HeaderLine
       /\ k = 2 => out_file.lines[k] = AlignLine
       /\ k > 2 => /\ SubSeq(out_file.lines[k], 1, 5) = <<PIPE, SP, ToString(k - 2), SP, PIPE>>
                   /\ k - 2 <= IdLimit
  /\ pc = "setup" =>
       \A k \in 3..Len(out_file.lines) :
         /\ StartsWith(out_file.lines[k], PIPE)
         /\ IntOf(Cols(out_file.lines[k])[1]) = {k - 2}

\* An incremental run has ended well after appending rows below at least two
\* rows that an earlier run wrote.
C1_Witness ==
  /\ pc = "idle" /\ result = "ok" /\ ~args.rebuild /\ runs >= 2
  /\ Len(DataLines(pre_file)) >= 2
  /\ Len(DataLines(out_file)) > Len(DataLines(pre_file))

\* C2: no two data rows of the Store have the same source_url.
C2_SourceUrlUnique ==
  \A i, j \in 1..Len(DataLines(out_file)) :
    i # j => Cols(DataLines(out_file)[i])[8] # Cols(DataLines(out_file)[j])[8]

\* C3: during and after an incremental run the Store the run found is a
\* prefix of the Store: its lines are all there, in place and unchanged.
C3_AppendOnly ==
  (runs > 0 /\ ~args.rebuild) =>
     /\ IsPrefix(pre_file.lines, out_file.lines)
     /\ pre_file.exists => out_file.exists

\* An incremental run that found rows in the Store has added a row.
C3_Witness ==
  /\ pc = "idle" /\ ~args.rebuild /\ runs > 0
  /\ Len(DataLines(pre_file)) >= 1
  /\ Appended >= 1
  /\ Len(out_file.lines) = Len(pre_file.lines) + Appended

\* (date, time_range, source_url) of a data line
RebuildKeyOfLine(line) == <<Cols(line)[12], Cols(line)[14], Cols(line)[8]>>

\* C4: after a successful rebuild the Store is the header followed by one row
\* per distinct event URL of the walked pages, in non-decreasing
\* (date, time_range, source_url) order, the k-th row with id k.
C4_RebuildResult ==
  (pc = "idle" /\ result = "ok" /\ args.rebuild) =>
     LET data == DataLines(out_file)
         walked == ListedOn(end_page, start_page)
     IN /\ SubSeq(out_file.lines, 1, 2) = <<HeaderLine, AlignLine>>
        /\ Len(data) = Cardinality(walked)
        /\ {Cols(data[k])[8] : k \in 1..Len(data)} = {MdEscapeCell(u) : u \in walked}
        /\ \A k \in 1..Len(data) : IntOf(Cols(data[k])[1]) = {k}
        /\ \A k \in 1..(Len(data) - 1) :
             ~TupleLess(RebuildKeyOfLine(data[k + 1]), RebuildKeyOfLine(data[k]))

\* A rebuild over two pages has replaced a Store that held other rows.
C4_Witness ==
  /\ pc = "idle" /\ result = "ok" /\ args.rebuild
  /\ start_page > end_page
  /\ Len(DataLines(out_file)) >= 3
  /\ Len(DataLines(pre_file)) >= 1
  /\ pre_file.lines # out_file.lines

\* C5: two completed rebuilds over the same page range of the same site
\* wrote the same Store content, whatever the Store held before each.
C5_RebuildIdempotent ==
  \A r1, r2 \in rebuilds :
    (r1.start_page = r2.start_page /\ r1.end_page = r2.end_page) => r1.lines = r2.lines

\* Two rebuilds over the same range have completed, the second one over the
\* rows the first one wrote.
C5_Witness ==
  \E r1, r2 \in rebuilds :
    /\ r1.run < r2.run
    /\ r1.start_page = r2.start_page /\ r1.end_page = r2.end_page
    /\ Len(r1.lines) >= 4

\* C6: in incremental mode a failing event detail page (curl failure, non-200
\* status, missing required field) does not abort the run.
C6_EventFailureSkipped ==
  ~ /\ pc = "idle" /\ result = "failed" /\ ~args.rebuild
    /\ net_log # <<>> /\ Last(net_log).kind = "event"

\* C7: a walked listing page that is fetched and lists no event URL aborts
\* the run, in both modes, with the Store left as it is; and once the run is
\* over nothing is written.
C7_EmptyListingAborts ==
  [][/\ (/\ pc = "list"
         /\ Len(net_log') = Len(net_log) + 1
         /\ ~FetchFailed(Last(net_log'))
         /\ ListingOf(web, page) = <<>>)
        => (/\ pc' = "idle" /\ result' = "failed"
            /\ error' = "no event URLs found"
            /\ out_file' = out_file)
     /\ (pc = "idle" /\ error = "no event URLs found") => out_file' = out_file]_vars

\* An incremental run was aborted by an empty page after it had appended the
\* rows of an earlier page.
C7_Witness ==
  /\ pc = "idle" /\ result = "failed" /\ error = "no event URLs found"
  /\ ~args.rebuild /\ Appended >= 1

\* C8: a listing page fetch or a boundary probe that fails (curl failure or a
\* status other than 200) ends the run at once, the Store left as it is; and
\* once the run is over nothing is fetched or written.
C8_ListingFailureFatal ==
  [][/\ (/\ Len(net_log') = Len(net_log) + 1
         /\ Last(net_log').kind \in {"list", "probe"}
         /\ FetchFailed(Last(net_log')))
        => (pc' = "idle" /\ result' = "failed" /\ out_file' = out_file)
     /\ (pc = "idle" /\ result = "failed") => (out_file' = out_file /\ net_log' = <<>>)]_vars

\* A run was aborted by the listing fetch of a later page, after it had
\* appended the rows of an earlier page.
C8_Witness ==
  /\ pc = "idle" /\ result = "failed" /\ error = "unexpected status for list page"
  /\ ~args.rebuild /\ Appended >= 1 /\ NumFetches("list") >= 2

\* URLs listed on pages 1..start_page whose cell is not in the Store the run found.
NewAtOrBelowStart ==
  {u \in ListedOn(1, start_page) : MdEscapeCell(u) \notin StoredUrls(pre_file)}

\* URLs listed on the start page that existing_urls did not hold at the start.
NewOnStartPage ==
  {u \in ListedOn(start_page, start_page) : u \notin ExistingConnpassUrls(pre_file)}

\* C9 as stated: an incremental run with limit L and no end page that ends
\* well appends exactly L rows whenever at least L events not yet in the
\* Store are listed at or below the start page; it never appends more than L.
C9_WalksUntilLimit ==
  /\ (runs > 0 /\ ~args.rebuild) => Appended <= args.limit
  /\ (/\ pc = "idle" /\ result = "ok" /\ runs > 0 /\ ~args.rebuild
      /\ args.end_page = <<>>
      /\ Cardinality(NewAtOrBelowStart) >= args.limit)
     => Appended = args.limit

\* C9 amended: with no end page only the start page is walked: a run that
\* ends well has fetched at most one listing page and appended min(L, k)
\* rows, k the number of URLs of the start page that existing_urls lacked;
\* no run appends more than L rows, and the Store grows by what it appended.
C9_StartPageOnly ==
  /\ (runs > 0 /\ ~args.rebuild) =>
        /\ Appended <= args.limit
        /\ (1 <= end_page /\ end_page <= start_page) =>
             Len(out_file.lines) = Len(EnsureTableHeader(pre_file).lines) + Appended
  /\ (/\ pc = "idle" /\ result = "ok" /\ runs > 0 /\ ~args.rebuild
      /\ args.end_page = <<>>)
     => /\ NumFetches("list") <= 1
        /\ Appended = Min(args.limit, Cardinality(NewOnStartPage))

\* An incremental run without end page has ended well short of its limit
\* although enough new events were listed on the pages below the start page.
C9_Witness ==
  /\ pc = "idle" /\ result = "ok" /\ runs > 0 /\ ~args.rebuild
  /\ args.end_page = <<>>
  /\ Cardinality(NewAtOrBelowStart) >= args.limit
  /\ Appended >= 1 /\ Appended < args.limit

\* C10 as stated: an incremental run never fetches more event detail pages
\* than its limit.
C10_ParsedWithinLimit ==
  (runs > 0 /\ ~args.rebuild) => NumFetches("event") <= args.limit

\* C10 amended: the limit is looked at before each listing page only: once
\* the rows appended reach the limit, the run makes no further fetch, of a
\* listing page or of an event page.
C10_StopsAtPageBoundary ==
  [][(~args.rebuild /\ pc \in {"list", "event"} /\ remaining <= 0)
       => net_log' = net_log]_vars

\* An incremental run has reached its limit with pages of its range left to
\* walk, having parsed more event pages than the limit.
C10_Witness ==
  /\ pc = "idle" /\ result = "ok" /\ ~args.rebuild /\ args.limit >= 1
  /\ remaining = 0 /\ page >= end_page
  /\ NumFetches("event") > args.limit

\* (date, source_url) of a data line
IncrementalKeyOfLine(line) == <<Cols(line)[12], Cols(line)[8]>>

\* The lines the current incremental run has appended below the header.
RunLines ==
  SubSeq(out_file.lines, Len(EnsureTableHeader(pre_file).lines) + 1, Len(out_file.lines))

KeysNonDecreasing(lines) ==
  \A k \in 1..(Len(lines) - 1) :
    ~TupleLess(IncrementalKeyOfLine(lines[k + 1]), IncrementalKeyOfLine(lines[k]))

\* C11 as stated: the rows one incremental run has appended are in
\* non-decreasing (date, source_url) order as a whole, whatever number of
\* listing pages they came from, with ids continuing from the next id.
C11_RunBatchSorted ==
  (runs > 0 /\ ~args.rebuild /\ 1 <= end_page /\ end_page <= start_page) =>
     /\ KeysNonDecreasing(RunLines)
     /\ \A k \in 1..Len(RunLines) : IntOf(Cols(RunLines[k])[1]) = {next_id + k - 1}

\* C11 amended: each listing page gives one batch: the lines a page appends
\* are in non-decreasing (date, source_url) order, below everything already
\* in the Store, with ids that continue from the last id the run assigned
\* (the next id of the Store for the first batch).
C11_PageBatchSorted ==
  [][(~args.rebuild /\ pc = "event" /\ out_file'.lines # out_file.lines) =>
       LET old == Len(out_file.lines)
           batch == SubSeq(out_file'.lines, old + 1, Len(out_file'.lines))
       IN /\ IsPrefix(out_file.lines, out_file'.lines)
          /\ Len(batch) = current_id' - current_id
          /\ current_id = next_id + (old - Len(EnsureTableHeader(pre_file).lines))
          /\ \A k \in 1..Len(batch) : IntOf(Cols(batch[k])[1]) = {current_id + k - 1}
          /\ KeysNonDecreasing(batch)]_vars

\* An incremental run over two listing pages has ended well with rows of
\* both pages appended, and the rows it appended are not in key order.
C11_Witness ==
  /\ pc = "idle" /\ result = "ok" /\ runs > 0 /\ ~args.rebuild
  /\ start_page > end_page /\ end_page >= 1
  /\ NumFetches("list") = 2 /\ Appended >= 2
  /\ ~KeysNonDecreasing(RunLines)

\* The dict a run gets when it loads the cache file as it is now / as the
\* current run found it.
Persisted == LoadSlideCache(files[SLIDE_CACHE_DEFAULT])

PersistedAtStart == LoadSlideCache(pre_files[SLIDE_CACHE_DEFAULT])

\* The link that a turn of the validation loop is about.
SlideLink == slide_urls_raw[slide_idx]

\* A step is one call of is_valid_slide_url.
SlideChecked == pc = "slides" /\ slide_idx' = slide_idx + 1

\* URLs the current run has checked over the network, from position n of the log on.
CheckedOverNetworkFrom(n) ==
  {net_log[i].url : i \in {j \in n..Len(net_log) : net_log[j].kind = "slide"}}

\* Position of the last listing fetch in the log (0: none yet).
LastListFetch ==
  LET L == {i \in 1..Len(net_log) : net_log[i].kind = "list"}
  IN IF L = {} THEN 0 ELSE SetMax(L)

\* C12: a call of is_valid_slide_url on a URL that has an entry in
\* _SLIDE_CACHE, true or false, makes no network request, leaves the cache as
\* it is and returns the entry (the link is kept iff the entry is true); and
\* no run checks over the network a URL that has an entry in the cache file
\* the run loaded.
C12_CacheHitSkipsNetwork ==
  [][/\ (SlideChecked /\ SlideLink \in Keys(slide_cache)) =>
          /\ net_log' = net_log
          /\ slide_cache' = slide_cache
          /\ slide_urls' = IF <<SlideLink, TRUE>> \in slide_cache
                           THEN Append(slide_urls, SlideLink) ELSE slide_urls
     /\ (Len(net_log') = Len(net_log) + 1 /\ Last(net_log').kind = "slide") =>
          Last(net_log').url \notin Keys(PersistedAtStart)]_vars

\* A second run has come to a link that the first run saved as not live:
\* the link is dropped and the run has made no request for it.
C12_Witness ==
  /\ runs = 2 /\ pc = "slides" /\ slide_idx = 2
  /\ slide_urls_raw[1] = S1
  /\ <<S1, FALSE>> \in PersistedAtStart
  /\ slide_urls = <<>>
  /\ S1 \notin CheckedOverNetworkFrom(1)

\* C13: a call of is_valid_slide_url on a URL without entry runs curl once
\* and, whatever comes back, leaves in _SLIDE_CACHE an entry for the URL
\* equal to the verdict it returns, the other entries untouched; a curl that
\* could not be run or exited non-zero gives false; the run goes on.
C13_MissStoresVerdict ==
  [][(SlideChecked /\ SlideLink \notin Keys(slide_cache)) =>
       /\ slide_urls' \in {slide_urls, Append(slide_urls, SlideLink)}
       /\ Get(slide_cache', SlideLink) = <<slide_urls' # slide_urls>>
       /\ {e \in slide_cache' : e[1] # SlideLink} = slide_cache
       /\ Len(net_log') = Len(net_log) + 1
       /\ Last(net_log').kind = "slide" /\ Last(net_log').url = SlideLink
       /\ ~Last(net_log').curl_ok => Get(slide_cache', SlideLink) = <<FALSE>>
       /\ pc' = "slides" /\ result' = result /\ error' = error]_vars

\* A run has checked two links, the first one live, the second one with a
\* curl that failed, and goes on.
C13_Witness ==
  /\ pc = "slides" /\ slide_idx = 3
  /\ Len(net_log) >= 2
  /\ Last(net_log).kind = "slide" /\ ~Last(net_log).curl_ok
  /\ <<Last(net_log).url, FALSE>> \in slide_cache
  /\ net_log[Len(net_log) - 1].kind = "slide"
  /\ <<net_log[Len(net_log) - 1].url, TRUE>> \in slide_cache
  /\ slide_urls = <<S1>>

\* Verdicts the current run computed that the cache file does not hold.
LostVerdicts == CheckedOverNetworkFrom(1) \ Keys(Persisted)

\* C14 as stated: once a run with --validate-slides is over by a failure or
\* an interruption, the cache file lacks at most one of the verdicts the run
\* computed.
C14_LosesAtMostOne ==
  (args.validate_slides /\ pc = "idle" /\ result \in {"failed", "interrupted"}) =>
     Cardinality(LostVerdicts) <= 1

\* C14 amended: the cache file is brought up to date at the end of each
\* listing page: what it holds is part of _SLIDE_CACHE, it is equal to
\* _SLIDE_CACHE whenever the run is between two pages or has ended well,
\* and every verdict it lacks was computed after the last listing fetch.
C14_FlushedAtPageEnd ==
  (runs > 0 /\ args.validate_slides) =>
     /\ Persisted \subseteq slide_cache
     /\ (pc = "list" \/ (pc = "idle" /\ result = "ok")) => Persisted = slide_cache
     /\ Keys(slide_cache \ Persisted) \subseteq CheckedOverNetworkFrom(LastListFetch + 1)

\* A run has ended by a failure on page 1 after saving the verdict of page 2:
\* the file has that verdict and lacks the two of page 1.
C14_Witness ==
  /\ args.validate_slides /\ pc = "idle" /\ result = "failed"
  /\ Cardinality(LostVerdicts) >= 2
  /\ CheckedOverNetworkFrom(1) \cap Keys(Persisted) # {}

C16_AppendAllOrNothing ==
  wr_pc \in {"dead", "returned"} =>
     IF args.rebuild
     THEN out_file.lines \in {pre_file.lines,
                              <<HeaderLine, AlignLine>> \o LinesOf(all_rows, 1)}
     ELSE out_file.lines \in {pre_file.lines,
                              pre_file.lines \o LinesOf(rows, current_id)}

FailedTries == {i \in 1..Len(tries) : tries[i].returncode # 0}

\* C17: a call of _run_curl with retries = r >= 0 runs curl at most r + 1
\* times; every run but the last one failed, so the first run that exits
\* with 0 ends the loop; the RuntimeError for a failed transfer is raised
\* after exactly r + 1 failed runs and carries the stderr of the last one;
\* while the loop goes on fewer than r + 1 runs were made, one per turn, so
\* it ends.
C17_BoundedAttempts ==
  /\ Len(tries) <= retries + 1
  /\ \A i \in 1..(Len(tries) - 1) : i \in FailedTries
  /\ curl_pc \in {"parse", "returned"} => Last(tries).returncode = 0
  /\ (curl_pc = "raised" /\ Len(tries) \notin FailedTries) =>
        error \in {"unexpected curl output", "unexpected curl meta"}
  /\ (curl_pc = "raised" /\ Len(tries) \in FailedTries) =>
        /\ Len(tries) = retries + 1
        /\ error = Last(tries).stderr
  /\ curl_pc = "loop" => (attempt = Len(tries) /\ attempt <= retries)

\* With the largest number of retries every run has failed, the first and
\* the last one for different reasons, and the error of the last is raised.
C17_Witness ==
  /\ curl_pc = "raised"
  /\ retries = MaxRetries
  /\ Len(tries) = retries + 1
  /\ FailedTries = 1..Len(tries)
  /\ tries[1].stderr # Last(tries).stderr
  /\ error = Last(tries).stderr
  /\ Len(sleeps) = retries

NoDuplicates(s) == \A i, j \in 1..Len(s) : s[i] = s[j] => i = j

InList(x, s) == \E i \in 1..Len(s) : s[i] = x

\* C18: the tweet_urls and the slide_urls of a built record hold no URL
\* twice, with and without validation, also when two links of the page
\* resolve or normalize to the same URL.
C18_NoDuplicateUrls ==
  pc = "built" => (NoDuplicates(tweet_urls) /\ NoDuplicates(slide_urls))

ResolveFailed(log) == log # <<>> /\ Last(log).kind = "resolve" /\ ~Last(log).curl_ok

\* C20: a turn of the link loop whose HEAD fetch of a shortener link raised
\* does not end the parsing: the loop goes on to the next link, no error is
\* recorded, and the link of that turn is the original one, which as a
\* shortener link goes to neither list.
C20_ResolveFailureKeepsLink ==
  [][(pc = "links" /\ Len(net_log') = Len(net_log) + 1 /\ ResolveFailed(net_log'))
       => /\ pc' = "links"
          /\ error' = error
          /\ link_idx' = link_idx + 1
          /\ Len(finals') = Len(finals) + 1
          /\ Last(finals') = links[link_idx]
          /\ Last(net_log').url = links[link_idx]
          /\ tweet_urls' = tweet_urls
          /\ slide_urls_raw' = slide_urls_raw]_vars

\* The first link of the page could not be resolved and was kept as it
\* was; the link after it was classified as a tweet URL and the record was
\* built.
C20_Witness ==
  /\ pc = "built"
  /\ Len(finals) = 2
  /\ finals[1] = ShortA
  /\ net_log # <<>> /\ ~net_log[1].curl_ok
  /\ tweet_urls = <<finals[2]>>

\* C21: whatever _event_row_from_url raises for an event has the URL of the
\* event in its message, also when the participation sub-page yields no
\* participant count.
C21_ErrorCarriesUrl ==
  pc = "raised" => Contains(error, urls[idx])

SubPageFetched == \E i \in 1..Len(net_log) : net_log[i].kind = "participation"

SubPageAnswered == \E i \in 1..Len(net_log) :
  net_log[i].kind = "participation" /\ net_log[i].curl_ok /\ net_log[i].status = 200

MainPageParsed ==
  html.got /\ ExtractTitle(html).ok /\ ExtractDate(html).ok /\ pc # "parse"

\* C29: the participant count is the first that is found: the count matched
\* on the main page, without a sub-page fetch; else 0 when the main page has
\* a no-registration marker, without a sub-page fetch; else the sub-page is
\* fetched and read by the same two rules; the event fails for its
\* participants only when the sub-page gives nothing.  A count of 0 stays 0,
\* and a returned row always has a number.
C29_FirstMatchWins ==
  /\ (MainPageParsed /\ html.count # None) =>
        /\ ~SubPageFetched
        /\ pc = "returned" /\ rows[1].participants = html.count[1]
  /\ (MainPageParsed /\ html.count = None /\ html.marker) =>
        /\ ~SubPageFetched
        /\ pc = "returned" /\ rows[1].participants = 0
  /\ (MainPageParsed /\ html.count = None /\ ~html.marker) =>
        /\ pc \in {"sub", "subparse", "again", "returned", "raised"}
        /\ pc # "sub" => SubPageFetched
        /\ pc = "returned" =>
             /\ SubPageAnswered
             /\ IF p_html.count # None THEN rows[1].participants = p_html.count[1]
                ELSE p_html.marker /\ rows[1].participants = 0
        /\ pc = "raised" =>
             \/ ~SubPageAnswered
             \/ (p_html.count = None /\ ~p_html.marker)
        /\ (pc = "again" /\ p_html.count = <<0>>) => participants = <<0>>
  /\ SubPageFetched => (MainPageParsed /\ html.count = None /\ ~html.marker)
  /\ pc = "returned" => rows[1].participants \in Nat

\* The main page has neither a count nor a marker, the sub-page shows a
\* count of 0, and the row is returned with 0 participants.
C29_Witness ==
  /\ pc = "returned"
  /\ html.count = None /\ ~html.marker
  /\ SubPageAnswered
  /\ p_html.count = <<0>>
  /\ rows[1].participants = 0

HasOnlineKeyword(text) == \E k \in ONLINE_KEYWORDS : Contains(text, k)

SleptAfter(i) == \E k \in 1..Len(sleeps) : sleeps[k].after = i

\* C22: in a run with a positive --sleep, a sleep lies between every two
\* network operations that follow each other, whatever their kind.
C22_SleepBetweenRequests ==
  (pc # "idle" /\ args.sleep > 0) =>
     \A i \in 1..(Len(net_log) - 1) : SleptAfter(i)

Walking == pc \in {"list", "event", "slides"}

ListFetches == {i \in 1..Len(net_log) : net_log[i].kind = "list"}

\* C23: a run whose end page is greater than its start page, given or
\* detected, never walks a page: it ends failed with the range error, with
\* no listing fetched, the Store as the run found it (absent stays absent)
\* and the cache file and its temporary file as the run found them.
C23_RangeCheckedFirst ==
  /\ Walking => end_page <= start_page
  /\ (pc = "idle" /\ runs > 0 /\ end_page > start_page) =>
        /\ result \in {"failed", "interrupted"}
        /\ ListFetches = {}
        /\ out_file = pre_file
        /\ files = pre_files
  /\ (pc = "idle" /\ result = "failed" /\ error = RANGE_MSG) => end_page > start_page

\* A validating run with an end page beyond the detected start page has
\* failed after the probe, with a cache file on disk and no Store.
C23_Witness ==
  /\ pc = "idle" /\ result = "failed" /\ error = RANGE_MSG
  /\ args.validate_slides
  /\ end_page > start_page /\ start_page > 0
  /\ Len(net_log) = 1 /\ net_log[1].kind = "probe"
  /\ ~out_file.exists
  /\ files[SLIDE_CACHE_DEFAULT].exists

\* C24: a title with '|', a backslash or an HTML entity in it, written by
\* append_rows and read back by parse_events, is one event of 14 cells whose
\* title cell is the title that was written.
C24_EscapeRoundTrip ==
  pc = "parsed" =>
    /\ Len(cells) = 1
    /\ Len(cells[1]) = 14
    /\ cells[1][4] = rows[1].title

\* The source_url values of the rows the Store holds once the write has
\* returned: those of the rows just written and, after an append, that of
\* the row that was there.
AppendedUrls ==
  LET rs == IF args.rebuild THEN all_rows ELSE rows
  IN {rs[i].connpass_url : i \in 1..Len(rs)}
       \cup (IF ~args.rebuild /\ DataLines(pre_file) # <<>> THEN {U3} ELSE {})

\* C28: once append_rows has returned, _existing_connpass_urls gives exactly
\* the source_url values of the rows of the Store, also for a URL without
\* "http" at its start and for a URL with '|' in it.
C28_ExistingUrlsExact ==
  wr_pc = "returned" => ExistingConnpassUrls(out_file) = AppendedUrls

\* Every event URL listed on the pages of the range has its row in f.
AllListedStored(f) ==
  \A u \in ListedOn(end_page, start_page) : MdEscapeCell(u) \in StoredUrls(f)

\* C26: an incremental run that went through a page range all of whose
\* listed event URLs had their rows in the Store has fetched no event detail
\* page and has left the Store as it found it.
C26_FixpointNoOp ==
  (/\ pc = "idle" /\ result = "ok" /\ runs > 0 /\ ~args.rebuild
   /\ DataLines(pre_file) # <<>>
   /\ AllListedStored(pre_file))
    => /\ out_file = pre_file
       /\ \A i \in 1..Len(net_log) : net_log[i].kind # "event"

\* C27: in a rebuild a fetch that fails (an event page or a listing page) and
\* a page without a required field end the run as failed; and as long as a
\* rebuild has not ended well, the Store is what the run found.
C27_FailedRebuildKeepsStore ==
  (runs > 0 /\ args.rebuild) =>
     /\ (net_log # <<>> /\ FetchFailed(Last(net_log))) => (pc = "idle" /\ result = "failed")
     /\ error # "" => (pc = "idle" /\ result = "failed")
     /\ ~(pc = "idle" /\ result = "ok") => out_file = pre_file

\* A rebuild over a Store with rows has parsed an event and then failed on
\* the detail page of the next one.
C27_Witness ==
  /\ pc = "idle" /\ result = "failed" /\ args.rebuild
  /\ DataLines(pre_file) # <<>>
  /\ all_rows # <<>>
  /\ Last(net_log).kind = "event" /\ FetchFailed(Last(net_log))

\* The event URLs listed in the range that have no row in f.
Missing(f) == {u \in ListedOn(end_page, start_page) : MdEscapeCell(u) \notin StoredUrls(f)}

\* C25: an incremental run with a limit of at least 1 that ended well, and
\* that found a listed event URL missing from the Store, has appended a row
\* and has left fewer listed URLs missing than it found: the step by which
\* repeated runs over the same range come to hold every listed URL.
C25_RunsConverge ==
  (/\ pc = "idle" /\ result = "ok" /\ runs > 0 /\ ~args.rebuild
   /\ args.limit >= 1
   /\ Missing(pre_file) # {})
    => /\ Len(DataLines(out_file)) > Len(DataLines(pre_file))
       /\ Cardinality(Missing(out_file)) < Cardinality(Missing(pre_file))

\* C32: the k-th sleep of a call of _run_curl (k from 0) is of 2^k seconds,
\* and of 6 seconds where 2^k is more: 1, 2, 4, 6, 6, ...; there is one
\* sleep for every failed run of curl but the one whose failure is raised,
\* so none after the last failed run and none after a run that succeeded.
C32_BackoffSchedule ==
  /\ \A k \in 1..Len(sleeps) :
       sleeps[k] = IF 2 ^ (k - 1) <= BACKOFF_CAP THEN 2 ^ (k - 1) ELSE BACKOFF_CAP
  /\ Len(sleeps) =
       Cardinality(FailedTries)
         - (IF curl_pc = "raised" /\ Len(tries) \in FailedTries THEN 1 ELSE 0)

\* Five runs of curl failed and the sixth succeeded: the sleeps were of
\* 1, 2, 4, 6 and 6 seconds.
C32_Witness ==
  /\ curl_pc = "returned"
  /\ Len(tries) = 6
  /\ sleeps = <<1, 2, 4, 6, 6>>

\* C36: a link of the page whose host is one of TWEET_DOMAINS and whose path
\* begins with /li/ or, for posfie.com and twilog.togetter.com, is any path,
\* is in tweet_urls once the loop has dealt with it.
C36_TweetDomainsAccepted ==
  \A i \in 1..Len(finals) :
    LET l == finals[i]
    IN (/\ l.host \in TWEET_DOMAINS
        /\ \/ l.host \in {<<"posfie", "com">>, <<"twilog", "togetter", "com">>}
           \/ (Len(l.path) >= 2 /\ l.path[1] = "li"))
         => InList(l, tweet_urls)

DETECT_ERRORS ==
  {"curl failed", "could not detect oldest page (non-200 on probe)",
   "could not detect oldest page (no pagination found)"}

\* C33: after the probe, the start page is the number of the active
\* pagination item if the page has one, whatever the pagination links say;
\* else the largest page number of the pagination links; and the detection
\* fails when the page has neither, or when the probe did not return 200.
C33_DetectOldestPage ==
  pc # "detect" =>
    IF ~html.curl_ok \/ html.status # 200
    THEN error \in DETECT_ERRORS
    ELSE IF html.active # {}
    THEN error \notin DETECT_ERRORS /\ html.active = {start_page}
    ELSE IF html.pagination # {}
    THEN error \notin DETECT_ERRORS
         /\ start_page \in html.pagination
         /\ \A n \in html.pagination : n <= start_page
    ELSE error \in DETECT_ERRORS

\* The entries a cache file holds: those of its text when the text is whole.
EntriesOf(f) ==
  IF f.exists /\ f.text.open /\ f.text.close
  THEN {f.text.items[i] : i \in 1..Len(f.text.items)}
  ELSE {}

\* C35: no step of any run with --validate-slides takes an entry out of the
\* cache file or changes its verdict: what the file holds before the step,
\* it holds after it.
C35_VerdictsStable ==
  [][EntriesOf(files[SLIDE_CACHE_DEFAULT]) \subseteq EntriesOf(files'[SLIDE_CACHE_DEFAULT])]_vars

\* A second run has ended well: the file it found held what the first run
\* had added to the "not live" entry that was there before, the run met a
\* link of that entry again and added an entry of its own.
C35_Witness ==
  /\ runs = 2 /\ pc = "idle" /\ result = "ok"
  /\ <<S2, FALSE>> \in EntriesOf(pre_files[SLIDE_CACHE_DEFAULT])
  /\ Cardinality(EntriesOf(pre_files[SLIDE_CACHE_DEFAULT])) >= 2
  /\ EntriesOf(pre_files[SLIDE_CACHE_DEFAULT]) \subseteq EntriesOf(files[SLIDE_CACHE_DEFAULT])
  /\ EntriesOf(pre_files[SLIDE_CACHE_DEFAULT]) # EntriesOf(files[SLIDE_CACHE_DEFAULT])

\* C38: in a run without --validate-slides no slide link is checked over the
\* network, the cache file is not loaded (_SLIDE_CACHE stays empty and
\* without a path), the cache file and its temporary file stay as the run
\* found them, present or absent, and every record has as slide_urls the
\* slide links of its page, each once, in the order of the page.
C38_NoValidationNoCache ==
  (runs > 0 /\ ~args.validate_slides) =>
     /\ \A i \in 1..Len(net_log) : net_log[i].kind # "slide"
     /\ slide_cache = EmptyDict /\ slide_cache_path = None
     /\ files = pre_files
     /\ \A i \in 1..Len(rows) : rows[i].slide_urls = EventRowOf(rows[i].connpass_url).slide_urls
     /\ \A i \in 1..Len(all_rows) :
          all_rows[i].slide_urls = EventRowOf(all_rows[i].connpass_url).slide_urls

\* A run without --validate-slides has ended well over a cache file that a
\* run with --validate-slides had written: it has built the record of an
\* event with two slide links and has left the file alone.
C38_Witness ==
  /\ runs = 2 /\ pc = "idle" /\ result = "ok" /\ ~args.validate_slides
  /\ Cardinality(EntriesOf(files[SLIDE_CACHE_DEFAULT])) >= 2
  /\ \E i \in 1..Len(all_rows) : Len(all_rows[i].slide_urls) = 2
  /\ Len(net_log) >= 4

\* C34: a row that _event_row_from_url returns has a non-empty title: the
\* text of the primary title block, else that of the title tag, and a page
\* with an empty primary block gets the text of its title tag.
C34_TitleNonEmpty ==
  (pc = "returned" /\ html.got) =>
    /\ rows[1].title # <<>>
    /\ (html.title_block # None /\ CleanText(StripTags(html.title_block[1])) = <<>>
        /\ html.title_tag # None)
         => rows[1].title = CleanText(html.title_tag[1])

\* C31: the page of the worked example (the date with its weekday and its
\* two times, the title with "vol.5", the placeholder venue, no address, no
\* participants pattern but a no-registration marker) gives a row without
\* an error and without a sub-page fetch: 0 participants, the mode
\* undetermined, the weekday, the time range "19:00~21:00" and "vol.5".
IsExamplePage(h) ==
  /\ h.got
  /\ h.title_block = <<TITLE_EXAMPLE>>
  /\ h.date_text = DATE_EXAMPLE
  /\ h.venue_name = <<VENUE_TBD>> /\ h.address = <<>>
  /\ h.count = None /\ h.marker

C31_WorkedExample ==
  (IsExamplePage(html) /\ pc # "parse") =>
    /\ pc = "returned"
    /\ ~SubPageFetched
    /\ Len(net_log) = 1
    /\ rows[1].participants = 0
    /\ rows[1].mode = VENUE_TBD
    /\ rows[1].weekday_ja = <<SUN>>
    /\ rows[1].time_range = <<"19:00~21:00">>
    /\ rows[1].vol = <<"vol.5">>

C31_Witness ==
  /\ IsExamplePage(html) /\ pc = "returned"
  /\ rows[1].vol = <<"vol.5">> /\ rows[1].participants = 0

\* The URLs of event_urls.txt that have the form .../event/<digits>/.
DigitsUrls == {O1, O2}

\* The saved page of such a URL, None when events/<digits>.html is absent.
SavedOf(u) == raw_dir.events[<<u[3]>>]

ListedWithPage ==
  {u \in DigitsUrls : InText(u, StrippedLines(raw_dir.urls_txt[1])) /\ SavedOf(u) # None}

StoredRowOf(u) ==
  {i \in 1..Len(DataLines(out_file)) : Cols(DataLines(out_file)[i])[8] = u}

\* C37: a run with --raw-dir and --rebuild, over a directory that has its
\* event_urls.txt and whose saved pages all have a title and a date, ends
\* with a Store of one row for every listed URL .../event/<digits>/ whose
\* page events/<digits>.html is saved; the row has 0 participants when the
\* page shows no count; and the run makes no network operation.
C37_OfflineRebuild ==
  /\ net_log = <<>>
  /\ (/\ pc = "idle" /\ args.rebuild
      /\ raw_dir.urls_txt # None
      /\ \A n \in SavedNames :
           raw_dir.events[n] # None
             => ExtractTitle(raw_dir.events[n][1]).ok /\ ExtractDate(raw_dir.events[n][1]).ok)
     => /\ result = "ok"
        /\ \A u \in ListedWithPage :
             /\ Cardinality(StoredRowOf(u)) = 1
             /\ SavedOf(u)[1].count = None =>
                  \E i \in StoredRowOf(u) : Cols(DataLines(out_file)[i])[11] = <<"0">>

====
